---- MODULE Spec2Model ----
(***************************************************************************)
(* Model of the taste-fingerprint and recommendation core of               *)
(* letteroutoftheboxd:                                                     *)
(*   scripts/taste_fingerprint_generator.py  (TasteFingerprintGenerator)   *)
(*   scripts/recommendation_engine.py        (RecommendationEngine)        *)
(*   scripts/ai_movie_analyzer.py            (AIMovieAnalyzer, the store)  *)
(*                                                                         *)
(* Python floats are modelled as exact rationals <<num, den>> in lowest    *)
(* terms (den > 0); Python's None is the empty tuple.  An insertion-       *)
(* ordered dict whose order the code relies on is a sequence of            *)
(* <<key, value>> items; a string assembled by " ".join from fixed         *)
(* sentences is the sequence of those sentences ("" is << >>).             *)
(***************************************************************************)
EXTENDS Integers, Sequences, FiniteSets, TLC

(***************************************************************************)
(* Exact rational arithmetic standing for float arithmetic.                *)
(***************************************************************************)
Abs(n) == IF n < 0 THEN -n ELSE n

RECURSIVE GCD(_, _)
GCD(a, b) == IF b = 0 THEN a ELSE GCD(b, a % b)

Rat(n, d) == LET g == GCD(Abs(n), d) IN <<n \div g, d \div g>>

RInt(n) == <<n, 1>>

\* sums and comparisons go through the least common denominator, which keeps
\* the intermediate integers small
RAdd(a, b) ==
    LET g == GCD(a[2], b[2])
    IN Rat(a[1] * (b[2] \div g) + b[1] * (a[2] \div g), (a[2] \div g) * b[2])

RSub(a, b) == RAdd(a, <<0 - b[1], b[2]>>)

RMul(a, b) ==
    LET g == GCD(Abs(a[1]), b[2])
        h == GCD(Abs(b[1]), a[2])
    IN Rat((a[1] \div g) * (b[1] \div h), (a[2] \div h) * (b[2] \div g))

RDivInt(a, n) == Rat(a[1], a[2] * n)

RLt(a, b) ==
    LET g == GCD(a[2], b[2]) IN a[1] * (b[2] \div g) < b[1] * (a[2] \div g)

RLe(a, b) ==
    LET g == GCD(a[2], b[2]) IN a[1] * (b[2] \div g) <= b[1] * (a[2] \div g)

None == << >>

(***************************************************************************)
(* Ordered-dict helpers (a dict is a sequence of <<key, value>> items).    *)
(***************************************************************************)
Keys(d) == {d[i][1] : i \in 1..Len(d)}

DictGet(d, k, default) ==
    IF k \in Keys(d)
    THEN d[CHOOSE i \in 1..Len(d) : d[i][1] = k][2]
    ELSE default

Take(s, n) == SubSeq(s, 1, IF Len(s) < n THEN Len(s) ELSE n)

\* list.sort(key=..., reverse=...) / sorted(...): a stable sort.  keys[i] is
\* the (rational) key of element i.  Element j ends up before element i when
\* its key sorts strictly first, or when the keys are equal and j came first
\* (equal keys keep their original relative order, with reverse=True too).
Precedes(kx, ky, reverse) == IF reverse THEN RLt(ky, kx) ELSE RLt(kx, ky)

SortRank(keys, i, reverse) ==
    1 + Cardinality({j \in 1..Len(keys) :
                        \/ Precedes(keys[j], keys[i], reverse)
                        \/ (keys[j] = keys[i] /\ j < i)})

\* the order of the indices after the sort, from the rank of each index
OrderOfRanks(rank) ==
    [p \in 1..Len(rank) |-> CHOOSE i \in 1..Len(rank) : rank[i] = p]

SortOrder(keys, reverse) ==
    OrderOfRanks([i \in 1..Len(keys) |-> SortRank(keys, i, reverse)] \o << >>)

Permuted(s, order) == [i \in 1..Len(s) |-> s[order[i]]]

\* the list s sorted by keys (keys[i] is the key of s[i])
SortedBy(s, keys, reverse) ==
    Permuted(s \o << >>, SortOrder(keys \o << >>, reverse) \o << >>)

(***************************************************************************)
(* TasteFingerprintGenerator                                               *)
(***************************************************************************)
dimension_names == <<
    "color_palette_psychology", "lighting_philosophy",
    "camera_movement_personality", "shot_composition_philosophy",
    "depth_of_field_psychology", "texture_and_grain",
    "aspect_ratio_emotional_frame", "spatial_density",
    "cinematic_realism_spectrum", "blocking_and_performance_space",
    "color_temperature", "lens_distortion_and_perspective",
    "shadow_ratio", "frame_rate_and_motion", "visual_motif_repetition",
    "editing_tempo", "narrative_rhythm", "temporal_structure",
    "montage_philosophy", "scene_length_variance", "ellipsis_and_gaps",
    "transition_style", "rhythm_acceleration",
    "score_emotional_temperature", "score_density", "music_function",
    "soundscape_texture", "diegetic_vs_nondiegetic_ratio",
    "sonic_interiority", "silence_as_tool", "vocal_treatment",
    "rhythmic_percussion",
    "philosophical_stance", "narrative_tension_source", "moral_complexity",
    "ending_resolution", "power_dynamics", "intimacy_scale",
    "dialogue_philosophy", "relationship_to_class", "body_and_physicality",
    "time_relationship", "hope_quotient", "political_consciousness",
    "craft_precision_vs_rawness", "art_cinema_vs_pop_cinema_mode",
    "narrative_ambition_level", "irony_sincerity_register",
    "emotional_weight_tolerance", "performance_style_preference",
    "script_construction_visibility", "auteur_intentionality_desire",
    "emotional_temperature", "catharsis_availability", "tonal_consistency",
    "empathy_requirement", "beauty_priority", "sensory_immersion",
    "vulnerability_exposure", "mystery_comfort", "artifice_awareness",
    "suffering_tolerance" >>

dimension_count == 62

DimSet == {dimension_names[i] : i \in 1..Len(dimension_names)}

\* movie.get('dimensional_scores', {}): the scores map, a function from the
\* keys the film supplies to a rational or None
MovieScores(movie) ==
    IF "dimensional_scores" \in DOMAIN movie
    THEN movie.dimensional_scores
    ELSE << >>

Supplies(scores, dim) == dim \in DOMAIN scores /\ scores[dim] # None

\* mutant: a film counts for every dimension, whether it supplies it or not
AccumulateMovie_counts_every_film(acc, movie) ==
    LET scores == MovieScores(movie)
    IN [dimension_sums |->
            [dim \in DimSet |->
                IF Supplies(scores, dim)
                THEN RAdd(acc.dimension_sums[dim], scores[dim])
                ELSE acc.dimension_sums[dim]],
        dimension_counts |->
            [dim \in DimSet |-> acc.dimension_counts[dim] + 1]]

\* one iteration of the loop over loved_movies_scores: every key of the
\* film's map that is registered and not None adds to its sum and count
AccumulateMovie(acc, movie) ==
    LET scores == MovieScores(movie)
    IN [dimension_sums |->
            [dim \in DimSet |->
                IF Supplies(scores, dim)
                THEN RAdd(acc.dimension_sums[dim], scores[dim])
                ELSE acc.dimension_sums[dim]],
        dimension_counts |->
            [dim \in DimSet |->
                IF Supplies(scores, dim)
                THEN acc.dimension_counts[dim] + 1
                ELSE acc.dimension_counts[dim]]]

RECURSIVE AccumulateFrom(_, _, _)
AccumulateFrom(movies, k, acc) ==
    IF k > Len(movies) THEN acc
    ELSE AccumulateFrom(movies, k + 1, AccumulateMovie(acc, movies[k]))

\* mutant: an unsupplied dimension defaults to 0.0
NeutralMidpoint_zero == RInt(0)

NeutralMidpoint == RInt(4)

\* mutant: a dimension nobody supplies gets no entry instead of the midpoint
calculate_average_scores_skips_unsupplied(loved_movies_scores) ==
    LET zero == [dimension_sums |-> [dim \in DimSet |-> RInt(0)],
                 dimension_counts |-> [dim \in DimSet |-> 0]]
        acc == AccumulateFrom(loved_movies_scores, 1, zero)
    IN SelectSeq([i \in 1..Len(dimension_names) |->
                     LET dim == dimension_names[i]
                     IN <<dim, IF acc.dimension_counts[dim] > 0
                               THEN RDivInt(acc.dimension_sums[dim],
                                            acc.dimension_counts[dim])
                               ELSE None>>],
                 LAMBDA item : item[2] # None)

calculate_average_scores(loved_movies_scores) ==
    LET zero == [dimension_sums |-> [dim \in DimSet |-> RInt(0)],
                 dimension_counts |-> [dim \in DimSet |-> 0]]
        acc == AccumulateFrom(loved_movies_scores, 1, zero)
    IN [i \in 1..Len(dimension_names) |->
            LET dim == dimension_names[i]
            IN <<dim,
                 IF acc.dimension_counts[dim] > 0
                 THEN RDivInt(acc.dimension_sums[dim], acc.dimension_counts[dim])
                 ELSE NeutralMidpoint>>]

LowThreshold == Rat(5, 2)

HighThreshold == Rat(11, 2)

IsStrongLow(item) == RLe(item[2], LowThreshold)

IsStrongHigh(item) == ~RLe(item[2], LowThreshold) /\ RLe(HighThreshold, item[2])

ItemScores(items) == [i \in 1..Len(items) |-> items[i][2]]

PreferenceCap == 10

\* mutant: the lists are not cut to the 10 most extreme
identify_strong_preferences_uncapped(avg_scores) ==
    LET strong_low == SelectSeq(avg_scores, IsStrongLow)
        strong_high == SelectSeq(avg_scores, IsStrongHigh)
    IN [low_end_preferences |->
            SortedBy(strong_low, ItemScores(strong_low), FALSE),
        high_end_preferences |->
            SortedBy(strong_high, ItemScores(strong_high), TRUE)]

\* mutant: the high list is sorted without reverse=True
identify_strong_preferences_high_ascending(avg_scores) ==
    LET strong_low == SelectSeq(avg_scores, IsStrongLow)
        strong_high == SelectSeq(avg_scores, IsStrongHigh)
    IN [low_end_preferences |->
            Take(SortedBy(strong_low, ItemScores(strong_low), FALSE), PreferenceCap),
        high_end_preferences |->
            Take(SortedBy(strong_high, ItemScores(strong_high), FALSE), PreferenceCap)]

identify_strong_preferences(avg_scores) ==
    LET strong_low == SelectSeq(avg_scores, IsStrongLow)
        strong_high == SelectSeq(avg_scores, IsStrongHigh)
    IN [low_end_preferences |->
            Take(SortedBy(strong_low, ItemScores(strong_low), FALSE), PreferenceCap),
        high_end_preferences |->
            Take(SortedBy(strong_high, ItemScores(strong_high), TRUE), PreferenceCap)]

\* " ".join(parts): the parts with one separator between neighbours
Space == <<" ">>

RECURSIVE JoinFrom(_, _)
JoinFrom(parts, k) ==
    IF k > Len(parts) THEN << >>
    ELSE IF k = Len(parts) THEN parts[k]
    ELSE parts[k] \o <<Space>> \o JoinFrom(parts, k + 1)

Join(parts) == JoinFrom(parts, 1)

\* the fixed sentence the renderer holds for a pole of a dimension
Sentence(dim, pole) == <<dim, pole>>

\* if s < lo: parts.append(low sentence) / elif s > hi: parts.append(high)
BothPoles(scores, dim, lo, hi) ==
    LET s == DictGet(scores, dim, RInt(4))
    IN IF RLt(s, lo) THEN <<<<Sentence(dim, "low")>>>>
       ELSE IF RLt(hi, s) THEN <<<<Sentence(dim, "high")>>>>
       ELSE << >>

\* if s > hi: parts.append(high sentence)
HighPole(scores, dim, hi) ==
    LET s == DictGet(scores, dim, RInt(4))
    IN IF RLt(hi, s) THEN <<<<Sentence(dim, "high")>>>> ELSE << >>

narrate_visual_taste(scores) ==
    Join(BothPoles(scores, "color_palette_psychology", RInt(3), RInt(5))
      \o BothPoles(scores, "lighting_philosophy", RInt(3), RInt(5))
      \o BothPoles(scores, "camera_movement_personality", RInt(3), RInt(5))
      \o BothPoles(scores, "cinematic_realism_spectrum", RInt(3), RInt(5)))

narrate_rhythm_taste(scores) ==
    Join(BothPoles(scores, "editing_tempo", RInt(3), RInt(5))
      \o HighPole(scores, "temporal_structure", RInt(5)))

narrate_sound_taste(scores) ==
    Join(BothPoles(scores, "score_emotional_temperature", RInt(3), RInt(5))
      \o HighPole(scores, "silence_as_tool", RInt(5))
      \o BothPoles(scores, "soundscape_texture", RInt(3), RInt(5)))

\* mutant: every quality dimension gated at 3 / 5 like the other categories
narrate_quality_taste_uniform_gates(scores) ==
    Join(BothPoles(scores, "craft_precision_vs_rawness", RInt(3), RInt(5))
      \o BothPoles(scores, "art_cinema_vs_pop_cinema_mode", RInt(3), RInt(5))
      \o BothPoles(scores, "narrative_ambition_level", RInt(3), RInt(5))
      \o BothPoles(scores, "irony_sincerity_register", RInt(3), RInt(5))
      \o BothPoles(scores, "emotional_weight_tolerance", RInt(3), RInt(5))
      \o BothPoles(scores, "performance_style_preference", RInt(3), RInt(5))
      \o HighPole(scores, "script_construction_visibility", RInt(5))
      \o HighPole(scores, "auteur_intentionality_desire", RInt(5)))

narrate_quality_taste(scores) ==
    Join(BothPoles(scores, "craft_precision_vs_rawness", RInt(3), RInt(5))
      \o BothPoles(scores, "art_cinema_vs_pop_cinema_mode", RInt(3), RInt(5))
      \o BothPoles(scores, "narrative_ambition_level", Rat(5, 2), Rat(11, 2))
      \o BothPoles(scores, "irony_sincerity_register", RInt(3), RInt(5))
      \o BothPoles(scores, "emotional_weight_tolerance", Rat(5, 2), Rat(11, 2))
      \o BothPoles(scores, "performance_style_preference", RInt(3), RInt(5))
      \o HighPole(scores, "script_construction_visibility", RInt(5))
      \o HighPole(scores, "auteur_intentionality_desire", RInt(5)))

narrate_story_taste(scores) ==
    Join(BothPoles(scores, "philosophical_stance", RInt(3), RInt(5))
      \o HighPole(scores, "ending_resolution", RInt(5))
      \o HighPole(scores, "moral_complexity", RInt(5))
      \o HighPole(scores, "relationship_to_class", RInt(5)))

narrate_emotional_taste(scores) ==
    Join(BothPoles(scores, "emotional_temperature", RInt(3), RInt(5))
      \o HighPole(scores, "vulnerability_exposure", RInt(5))
      \o HighPole(scores, "mystery_comfort", RInt(5))
      \o BothPoles(scores, "beauty_priority", RInt(3), RInt(5)))

\* if narrative: narrative_parts.append(narrative)
NonEmptyPart(narrative) == IF narrative # << >> THEN <<narrative>> ELSE << >>

\* mutant: the story sub-narrative is placed before the quality profile
generate_narrative_fingerprint_story_first(avg_scores, strong_preferences) ==
    Join(NonEmptyPart(narrate_visual_taste(avg_scores))
      \o NonEmptyPart(narrate_rhythm_taste(avg_scores))
      \o NonEmptyPart(narrate_sound_taste(avg_scores))
      \o NonEmptyPart(narrate_story_taste(avg_scores))
      \o NonEmptyPart(narrate_quality_taste(avg_scores))
      \o NonEmptyPart(narrate_emotional_taste(avg_scores)))

generate_narrative_fingerprint(avg_scores, strong_preferences) ==
    Join(NonEmptyPart(narrate_visual_taste(avg_scores))
      \o NonEmptyPart(narrate_rhythm_taste(avg_scores))
      \o NonEmptyPart(narrate_sound_taste(avg_scores))
      \o NonEmptyPart(narrate_quality_taste(avg_scores))
      \o NonEmptyPart(narrate_story_taste(avg_scores))
      \o NonEmptyPart(narrate_emotional_taste(avg_scores)))

\* mutant: the scale is divided by 6 without first shifting it to start at 0
create_taste_vector_unshifted(avg_scores) ==
    [i \in 1..Len(dimension_names) |->
        RDivInt(DictGet(avg_scores, dimension_names[i], RInt(4)), 6)]

\* mutant: the shifted scale is divided by 7, the top of the scale
create_taste_vector_by_seven(avg_scores) ==
    [i \in 1..Len(dimension_names) |->
        RDivInt(RSub(DictGet(avg_scores, dimension_names[i], RInt(4)), RInt(1)), 7)]

\* (vector - 1) / 6 over the scores in dimension_names order
create_taste_vector(avg_scores) ==
    [i \in 1..Len(dimension_names) |->
        RDivInt(RSub(DictGet(avg_scores, dimension_names[i], RInt(4)), RInt(1)), 6)]

generate_taste_fingerprint(loved_movies_scores) ==
    LET avg_scores == calculate_average_scores(loved_movies_scores)
        strong_preferences == identify_strong_preferences(avg_scores)
        narrative == generate_narrative_fingerprint(avg_scores, strong_preferences)
        taste_vector == create_taste_vector(avg_scores)
    IN [dimensional_scores |-> avg_scores,
        strong_preferences |-> strong_preferences,
        narrative |-> narrative,
        taste_vector |-> taste_vector,
        vector_dimension |-> Len(taste_vector)]

(***************************************************************************)
(* Strings the code transforms character by character (film titles, slugs, *)
(* store ids) are sequences of one-character strings.                      *)
(***************************************************************************)
UpperCase == <<"A", "B", "C", "D", "E", "F", "G", "H", "I", "J", "K", "L", "M",
               "N", "O", "P", "Q", "R", "S", "T", "U", "V", "W", "X", "Y", "Z">>

LowerCase == <<"a", "b", "c", "d", "e", "f", "g", "h", "i", "j", "k", "l", "m",
               "n", "o", "p", "q", "r", "s", "t", "u", "v", "w", "x", "y", "z">>

DigitChars == <<"0", "1", "2", "3", "4", "5", "6", "7", "8", "9">>

Digits == {DigitChars[i] : i \in 1..Len(DigitChars)}

LowerLetters == {LowerCase[i] : i \in 1..Len(LowerCase)}

\* the characters \s matches
Whitespace == {" "}

LowerChar(c) ==
    IF \E i \in 1..Len(UpperCase) : UpperCase[i] = c
    THEN LowerCase[CHOOSE i \in 1..Len(UpperCase) : UpperCase[i] = c]
    ELSE c

\* str.lower()
Lower(str) == [i \in 1..Len(str) |-> LowerChar(str[i])]

\* str.replace(old, new) for a one-character old and new of length 0 or 1
RECURSIVE ReplaceFrom(_, _, _, _)
ReplaceFrom(str, k, old, new) ==
    IF k > Len(str) THEN << >>
    ELSE (IF str[k] = old THEN new ELSE <<str[k]>>)
            \o ReplaceFrom(str, k + 1, old, new)

Replace(str, old, new) == ReplaceFrom(str, 1, old, new)

\* re.sub(r'[^a-z0-9\s-]', '', str)
KeepSlugChars(str) ==
    SelectSeq(str, LAMBDA c : c \in LowerLetters \cup Digits \cup Whitespace \cup {"-"})

\* re.sub(r'\s+', '-', str): every maximal run of whitespace becomes one '-'
RECURSIVE HyphenateFrom(_, _)
HyphenateFrom(str, k) ==
    IF k > Len(str) THEN << >>
    ELSE IF str[k] \notin Whitespace THEN <<str[k]>> \o HyphenateFrom(str, k + 1)
    ELSE IF k > 1 /\ str[k - 1] \in Whitespace THEN HyphenateFrom(str, k + 1)
    ELSE <<"-">> \o HyphenateFrom(str, k + 1)

HyphenateWhitespace(str) == HyphenateFrom(str, 1)

\* str.strip(ch)
Strip(str, ch) ==
    LET keep == {i \in 1..Len(str) : str[i] # ch}
    IN IF keep = {} THEN << >>
       ELSE SubSeq(str, CHOOSE i \in keep : \A j \in keep : i <= j,
                        CHOOSE i \in keep : \A j \in keep : j <= i)

\* dict.get(key, default) on a record
Get(record, key, default) == IF key \in DOMAIN record THEN record[key] ELSE default

\* Python truthiness of a string or a list
Truthy(v) == v # << >>

(***************************************************************************)
(* RecommendationEngine._create_slug and the two id rules of the analyzer  *)
(***************************************************************************)
create_slug(title) ==
    Strip(HyphenateWhitespace(KeepSlugChars(Lower(title))), "-")

\* analyze_and_store_movie: movie_data.get('slug') or
\*     movie_data.get('title', '').lower().replace(' ', '-').replace("'", '')
analyze_slug(movie_data) ==
    IF Truthy(Get(movie_data, "slug", << >>))
    THEN movie_data.slug
    ELSE Replace(Replace(Lower(Get(movie_data, "title", << >>)), " ", <<"-">>),
                 "'", << >>)

\* store_movie_in_vectordb: movie_data.get('slug') or
\*     movie_data.get('title', '').lower().replace(' ', '-')
store_id(movie_data) ==
    IF Truthy(Get(movie_data, "slug", << >>))
    THEN movie_data.slug
    ELSE Replace(Lower(Get(movie_data, "title", << >>)), " ", <<"-">>)

(***************************************************************************)
(* The vector store: the ChromaDB collection "movies" (cosine space), a    *)
(* function from ids to the embedding, document and metadata stored under  *)
(* them.  Embeddings are integer vectors with integer norms, distances are *)
(* exact rationals.                                                        *)
(***************************************************************************)
ToSet(s) == {s[i] : i \in 1..Len(s)}

RECURSIVE DotFrom(_, _, _)
DotFrom(a, b, k) ==
    IF k > Len(a) THEN 0 ELSE a[k] * b[k] + DotFrom(a, b, k + 1)

Dot(a, b) == DotFrom(a, b, 1)

\* the Euclidean norm, an integer no larger than the sum of the components'
\* sizes
RECURSIVE AbsSumFrom(_, _)
AbsSumFrom(v, k) == IF k > Len(v) THEN 0 ELSE Abs(v[k]) + AbsSumFrom(v, k + 1)

NormOf(square, bound) == CHOOSE n \in 0..bound : n * n = square

Norm(v) == NormOf(Dot(v, v), AbsSumFrom(v, 1))

\* cosine distance 1 - a.b / (|a| |b|); a zero vector is at distance 1 from
\* every vector, itself included
CosineDistance(a, b) ==
    IF Norm(a) = 0 \/ Norm(b) = 0
    THEN RInt(1)
    ELSE RSub(RInt(1), Rat(Dot(a, b), Norm(a) * Norm(b)))

EmptyCollection == << >>

\* collection.get(ids=[id]): the list of ids found
collection_get(collection, id) ==
    IF id \in DOMAIN collection THEN <<id>> ELSE << >>

\* collection.add(embeddings=[..], documents=[..], metadatas=[..], ids=[id]):
\* an id the collection already holds keeps its record
collection_add(collection, id, embedding, document, metadata) ==
    IF id \in DOMAIN collection
    THEN collection
    ELSE (id :> [embedding |-> embedding,
                 document |-> document,
                 metadata |-> metadata]) @@ collection

\* every order of a set of ids
RECURSIVE Orderings(_)
Orderings(ids) ==
    IF ids = {} THEN {<< >>}
    ELSE UNION {{<<x>> \o rest : rest \in Orderings(ids \ {x})} : x \in ids}

\* collection.query(query_embeddings=[e], n_results=n): the ids of the (at
\* most n) nearest records, nearest first.  Records at equal distance come in
\* the order the index happens to hold them, tiebreak (an order of all ids).
collection_query(collection, query_embedding, n_results, tiebreak) ==
    Take(SortedBy(tiebreak,
                  [i \in 1..Len(tiebreak) |->
                      CosineDistance(query_embedding,
                                     collection[tiebreak[i]].embedding)],
                  FALSE),
         n_results)

(***************************************************************************)
(* AIMovieAnalyzer                                                         *)
(***************************************************************************)
\* '<sep>'.join(parts), the parts kept as tokens
RECURSIVE JoinTokensFrom(_, _, _)
JoinTokensFrom(sep, parts, k) ==
    IF k > Len(parts) THEN << >>
    ELSE IF k = Len(parts) THEN <<parts[k]>>
    ELSE <<parts[k], sep>> \o JoinTokensFrom(sep, parts, k + 1)

JoinTokens(sep, parts) == JoinTokensFrom(sep, parts, 1)

\* str(n) of an integer
RECURSIVE IntToStr(_)
IntToStr(n) ==
    IF n < 0 THEN <<"-">> \o IntToStr(0 - n)
    ELSE IF n < 10 THEN <<DigitChars[n + 1]>>
    ELSE IntToStr(n \div 10) \o <<DigitChars[(n % 10) + 1]>>

get_default_analysis ==
    [visual_style |-> <<"standard">>,
     themes |-> <<"general">>,
     mood |-> "neutral",
     pacing |-> "standard",
     influences |-> << >>,
     innovation |-> "traditional approach",
     emotional_tone |-> "balanced",
     viewer_experience |-> "mainstream",
     curatorial_notes |-> "Analysis unavailable"]

Contemplative == <<"c", "o", "n", "t", "e", "m", "p", "l", "a", "t", "i", "v", "e">>

Engaging == <<"e", "n", "g", "a", "g", "i", "n", "g">>

MoodLength == 50

convert_to_legacy_format(elite_analysis) ==
    [visual_style |-> <<Get(elite_analysis, "aesthetic_signature", "cinematic")>>,
     themes |-> Get(elite_analysis, "human_condition_themes", << >>),
     mood |-> Take(Get(elite_analysis, "core_essence", Contemplative), MoodLength),
     pacing |-> "measured",
     influences |-> << >>,
     innovation |-> Get(elite_analysis, "aesthetic_signature", "unique"),
     emotional_tone |-> Take(Get(elite_analysis, "viewer_resonance", Engaging), MoodLength),
     viewer_experience |-> Get(elite_analysis, "viewer_resonance", Engaging),
     curatorial_notes |-> Get(elite_analysis, "core_essence", << >>)]

\* response is what the chat completion gave: << >> when the call raised or
\* its text was no JSON, else <<the parsed object>>
\* mutant: a reply without dimensional scores is returned as it came
analyze_movie_with_ai_keeping_unscored_reply(movie_data, response) ==
    IF response = << >> THEN get_default_analysis
    ELSE ("legacy_analysis" :> convert_to_legacy_format(response[1])) @@ response[1]

analyze_movie_with_ai(movie_data, response) ==
    IF response = << >> THEN get_default_analysis
    ELSE IF "dimensional_scores" \notin DOMAIN response[1] THEN get_default_analysis
    ELSE ("legacy_analysis" :> convert_to_legacy_format(response[1])) @@ response[1]

\* what the chat completion gave, as analyze_movie_with_ai takes it: nothing
\* when the call raised or its text was no JSON
ParsedReply(reply) == IF reply.kind = "json" THEN <<reply.object>> ELSE << >>

ZeroEmbedding == <<0, 0>>

\* response is what the embeddings call gave: << >> when it raised, else
\* <<the embedding>>
create_movie_embedding(movie_data, ai_analysis, response) ==
    IF response = << >> THEN ZeroEmbedding ELSE response[1]

\* the metadata's analyzed_at (the clock) is left out
store_movie_in_vectordb(collection, movie_data, ai_analysis, embedding) ==
    LET movie_id == store_id(movie_data)
        metadata ==
            [title |-> Get(movie_data, "title", << >>),
             director |-> Get(movie_data, "director", ""),
             year |-> IF "year" \in DOMAIN movie_data
                      THEN IntToStr(movie_data.year) ELSE << >>,
             genres |-> JoinTokens("|", Get(movie_data, "genres", << >>)),
             mood |-> Get(ai_analysis, "mood", ""),
             emotional_tone |-> Get(ai_analysis, "emotional_tone", ""),
             pacing |-> Get(ai_analysis, "pacing", ""),
             visual_style |-> JoinTokens("|", Get(ai_analysis, "visual_style", << >>)),
             themes |-> JoinTokens("|", Get(ai_analysis, "themes", << >>))]
    IN collection_add(collection, movie_id, embedding,
                      ai_analysis @@ movie_data, metadata)

\* outcome holds what OpenAI answers during this call: [ai |-> .., embedding |-> ..]
analyze_and_store_movie(collection, movie_data, outcome) ==
    LET movie_slug == analyze_slug(movie_data)
    IN IF collection_get(collection, movie_slug) # << >>
       THEN collection
       ELSE LET ai_analysis == analyze_movie_with_ai(movie_data, outcome.ai)
                embedding == create_movie_embedding(movie_data, ai_analysis,
                                                    outcome.embedding)
            IN store_movie_in_vectordb(collection, movie_data, ai_analysis, embedding)

SelfDistance == Rat(1, 100)

find_similar_movies(collection, movie_id, limit, tiebreak) ==
    IF movie_id \notin DOMAIN collection THEN << >>
    ELSE LET target_embedding == collection[movie_id].embedding
             ranking == collection_query(collection, target_embedding, limit + 1,
                                         tiebreak)
             hits == [i \in 1..Len(ranking) |->
                        [i |-> i,
                         doc |-> collection[ranking[i]].document,
                         metadata |-> collection[ranking[i]].metadata,
                         distance |-> CosineDistance(
                             target_embedding, collection[ranking[i]].embedding)]]
                     \o << >>
             kept == SelectSeq(hits, LAMBDA h :
                        ~(h.i = 1 /\ RLt(h.distance, SelfDistance)))
             similar_movies ==
                 [j \in 1..Len(kept) |->
                     ("metadata" :> kept[j].metadata)
                     @@ ("similarity_score" :> RSub(RInt(1), kept[j].distance))
                     @@ kept[j].doc]
         IN Take(similar_movies, limit)

(***************************************************************************)
(* RecommendationEngine                                                    *)
(***************************************************************************)
RECURSIVE FlattenFrom(_, _)
FlattenFrom(lists, k) ==
    IF k > Len(lists) THEN << >> ELSE lists[k] \o FlattenFrom(lists, k + 1)

Flatten(lists) == FlattenFrom(lists, 1)

\* a defaultdict(int) incremented once per item: its items() in the order
\* the keys were first seen
Counter(items) ==
    LET first == {i \in 1..Len(items) : \A j \in 1..(i - 1) : items[j] # items[i]}
        nth(p) == CHOOSE i \in first : Cardinality({j \in first : j < i}) = p - 1
    IN [p \in 1..Cardinality(first) |->
            <<items[nth(p)],
              Cardinality({j \in 1..Len(items) : items[j] = items[nth(p)]})>>]

\* the keys by descending count, not cut to n
TopKeys_uncapped(counter, n) ==
    LET top == SortedBy(counter,
                        [i \in 1..Len(counter) |-> RInt(counter[i][2])], TRUE)
    IN [i \in 1..Len(top) |-> top[i][1]]

\* [x[0] for x in sorted(counter.items(), key=lambda x: x[1], reverse=True)[:n]]
TopKeys(counter, n) ==
    LET top == Take(SortedBy(counter,
                             [i \in 1..Len(counter) |-> RInt(counter[i][2])], TRUE), n)
    IN [i \in 1..Len(top) |-> top[i][1]]

\* the year of the first film, once per film
SumYearsFrom_first_film_only(movies, k) ==
    IF Len(movies) = 0 THEN 0 ELSE Get(movies[1], "year", 0) * Len(movies)

RECURSIVE SumYearsFrom(_, _)
SumYearsFrom(movies, k) ==
    IF k > Len(movies) THEN 0
    ELSE Get(movies[k], "year", 0) + SumYearsFrom(movies, k + 1)

TopListLength == 5

TopShortListLength == 3

CastCounted == 3

\* the profile with total_movies one too many
analyze_taste_profile_counting_from_one(loved_movies) ==
    LET each(f(_)) == Flatten([i \in 1..Len(loved_movies) |-> f(loved_movies[i])])
        movie_genres(movie) == Get(movie, "genres", << >>)
        movie_themes(movie) == Get(movie, "themes", << >>)
        movie_director(movie) ==
            LET director == Get(movie, "director", "")
            IN IF director # "" /\ director # "N/A" THEN <<director>> ELSE << >>
        movie_cast(movie) == Take(Get(movie, "cast", << >>), CastCounted)
        movie_decade(movie) ==
            LET year == Get(movie, "year", 0)
            IN IF year # 0 THEN <<<<(year \div 10) * 10, "s">>>> ELSE << >>
        movie_mood(movie) ==
            LET mood == Get(movie, "mood", "")
            IN IF mood # "" THEN <<mood>> ELSE << >>
        genres == Counter(each(movie_genres))
        themes == Counter(each(movie_themes))
        directors == Counter(each(movie_director))
        actors == Counter(each(movie_cast))
        decades == Counter(each(movie_decade))
        moods == Counter(each(movie_mood))
    IN [top_genres |-> TopKeys(genres, TopListLength),
        top_themes |-> TopKeys(themes, TopListLength),
        top_directors |-> TopKeys(directors, TopListLength),
        top_actors |-> TopKeys(actors, TopListLength),
        top_decades |-> TopKeys(decades, TopShortListLength),
        top_moods |-> TopKeys(moods, TopShortListLength),
        genre_distribution |-> genres,
        total_movies |-> Len(loved_movies) + 1,
        average_year |-> IF loved_movies # << >>
                         THEN Rat(SumYearsFrom(loved_movies, 1), Len(loved_movies))
                         ELSE RInt(0)]

analyze_taste_profile(loved_movies) ==
    LET each(f(_)) == Flatten([i \in 1..Len(loved_movies) |-> f(loved_movies[i])])
        movie_genres(movie) == Get(movie, "genres", << >>)
        movie_themes(movie) == Get(movie, "themes", << >>)
        movie_director(movie) ==
            LET director == Get(movie, "director", "")
            IN IF director # "" /\ director # "N/A" THEN <<director>> ELSE << >>
        movie_cast(movie) == Take(Get(movie, "cast", << >>), CastCounted)
        movie_decade(movie) ==
            LET year == Get(movie, "year", 0)
            IN IF year # 0 THEN <<<<(year \div 10) * 10, "s">>>> ELSE << >>
        movie_mood(movie) ==
            LET mood == Get(movie, "mood", "")
            IN IF mood # "" THEN <<mood>> ELSE << >>
        genres == Counter(each(movie_genres))
        themes == Counter(each(movie_themes))
        directors == Counter(each(movie_director))
        actors == Counter(each(movie_cast))
        decades == Counter(each(movie_decade))
        moods == Counter(each(movie_mood))
    IN [top_genres |-> TopKeys(genres, TopListLength),
        top_themes |-> TopKeys(themes, TopListLength),
        top_directors |-> TopKeys(directors, TopListLength),
        top_actors |-> TopKeys(actors, TopListLength),
        top_decades |-> TopKeys(decades, TopShortListLength),
        top_moods |-> TopKeys(moods, TopShortListLength),
        genre_distribution |-> genres,
        total_movies |-> Len(loved_movies),
        average_year |-> IF loved_movies # << >>
                         THEN Rat(SumYearsFrom(loved_movies, 1), Len(loved_movies))
                         ELSE RInt(0)]

\* outcomes[k] is what OpenAI answers if the k-th movie is analyzed
RECURSIVE EnsureFrom(_, _, _, _)
EnsureFrom(collection, movies, k, outcomes) ==
    IF k > Len(movies) THEN collection
    ELSE LET movie == movies[k]
             movie_slug == create_slug(Get(movie, "title", << >>))
             existing == collection_get(collection, movie_slug)
         IN EnsureFrom(IF Len(existing) = 0
                       THEN analyze_and_store_movie(collection, movie, outcomes[k])
                       ELSE collection,
                       movies, k + 1, outcomes)

ensure_movies_analyzed(collection, movies, outcomes) ==
    EnsureFrom(collection, movies, 1, outcomes)

RMin(a, b) == IF RLt(a, b) THEN a ELSE b

DefaultYear == 2000

RecencyYear == 2020

\* the score without the recency term
score_candidate_without_recency(candidate, taste_profile, diversity_factor) ==
    LET similarity == Get(candidate, "base_similarity", RInt(0))
        candidate_genres == ToSet(Get(candidate, "genres", << >>))
        profile_genres == ToSet(taste_profile.top_genres)
        genre_match ==
            Rat(Cardinality(candidate_genres \cap profile_genres),
                IF Cardinality(candidate_genres) > 1
                THEN Cardinality(candidate_genres) ELSE 1)
        director_match ==
            /\ "director" \in DOMAIN candidate
            /\ candidate.director \in ToSet(taste_profile.top_directors)
        director_bonus == IF director_match THEN Rat(12, 10) ELSE RInt(1)
        candidate_themes == ToSet(Get(candidate, "themes", << >>))
        profile_themes == ToSet(taste_profile.top_themes)
        theme_match ==
            IF candidate_themes # {}
            THEN Rat(Cardinality(candidate_themes \cap profile_themes),
                     Cardinality(candidate_themes))
            ELSE RInt(0)
        year == Get(candidate, "year", DefaultYear)
        recency_factor == RMin(Rat(year, RecencyYear), RInt(1))
        base_score == RMul(similarity, Rat(5, 10))
        genre_score == RMul(genre_match, Rat(2, 10))
        theme_score == RMul(theme_match, Rat(15, 100))
        director_score == RMul(RSub(director_bonus, RInt(1)), Rat(15, 100))
        final_score ==
            RAdd(RAdd(RAdd(RAdd(
                RMul(base_score,
                     RSub(RInt(1), RMul(diversity_factor, Rat(3, 10)))),
                genre_score),
                theme_score),
                director_score),
                RInt(0))
    IN ("score_breakdown" :> [similarity |-> similarity,
                              genre_match |-> genre_match,
                              theme_match |-> theme_match,
                              director_match |-> RLt(RInt(1), director_bonus)])
       @@ ("recommendation_score" :> final_score)
       @@ candidate

\* the score with the similarity weight left at 0.5
score_candidate_similarity_undiscounted(candidate, taste_profile, diversity_factor) ==
    LET similarity == Get(candidate, "base_similarity", RInt(0))
        candidate_genres == ToSet(Get(candidate, "genres", << >>))
        profile_genres == ToSet(taste_profile.top_genres)
        genre_match ==
            Rat(Cardinality(candidate_genres \cap profile_genres),
                IF Cardinality(candidate_genres) > 1
                THEN Cardinality(candidate_genres) ELSE 1)
        director_match ==
            /\ "director" \in DOMAIN candidate
            /\ candidate.director \in ToSet(taste_profile.top_directors)
        director_bonus == IF director_match THEN Rat(12, 10) ELSE RInt(1)
        candidate_themes == ToSet(Get(candidate, "themes", << >>))
        profile_themes == ToSet(taste_profile.top_themes)
        theme_match ==
            IF candidate_themes # {}
            THEN Rat(Cardinality(candidate_themes \cap profile_themes),
                     Cardinality(candidate_themes))
            ELSE RInt(0)
        year == Get(candidate, "year", DefaultYear)
        recency_factor == RMin(Rat(year, RecencyYear), RInt(1))
        base_score == RMul(similarity, Rat(5, 10))
        genre_score == RMul(genre_match, Rat(2, 10))
        theme_score == RMul(theme_match, Rat(15, 100))
        director_score == RMul(RSub(director_bonus, RInt(1)), Rat(15, 100))
        final_score ==
            RAdd(RAdd(RAdd(RAdd(
                RMul(base_score,
                     RInt(1)),
                genre_score),
                theme_score),
                director_score),
                RMul(RMul(recency_factor, diversity_factor), Rat(1, 10)))
    IN ("score_breakdown" :> [similarity |-> similarity,
                              genre_match |-> genre_match,
                              theme_match |-> theme_match,
                              director_match |-> RLt(RInt(1), director_bonus)])
       @@ ("recommendation_score" :> final_score)
       @@ candidate

\* the score with the director bonus not reduced by 1.0
score_candidate_full_director_bonus(candidate, taste_profile, diversity_factor) ==
    LET similarity == Get(candidate, "base_similarity", RInt(0))
        candidate_genres == ToSet(Get(candidate, "genres", << >>))
        profile_genres == ToSet(taste_profile.top_genres)
        genre_match ==
            Rat(Cardinality(candidate_genres \cap profile_genres),
                IF Cardinality(candidate_genres) > 1
                THEN Cardinality(candidate_genres) ELSE 1)
        director_match ==
            /\ "director" \in DOMAIN candidate
            /\ candidate.director \in ToSet(taste_profile.top_directors)
        director_bonus == IF director_match THEN Rat(12, 10) ELSE RInt(1)
        candidate_themes == ToSet(Get(candidate, "themes", << >>))
        profile_themes == ToSet(taste_profile.top_themes)
        theme_match ==
            IF candidate_themes # {}
            THEN Rat(Cardinality(candidate_themes \cap profile_themes),
                     Cardinality(candidate_themes))
            ELSE RInt(0)
        year == Get(candidate, "year", DefaultYear)
        recency_factor == RMin(Rat(year, RecencyYear), RInt(1))
        base_score == RMul(similarity, Rat(5, 10))
        genre_score == RMul(genre_match, Rat(2, 10))
        theme_score == RMul(theme_match, Rat(15, 100))
        director_score == RMul(director_bonus, Rat(15, 100))
        final_score ==
            RAdd(RAdd(RAdd(RAdd(
                RMul(base_score,
                     RSub(RInt(1), RMul(diversity_factor, Rat(3, 10)))),
                genre_score),
                theme_score),
                director_score),
                RMul(RMul(recency_factor, diversity_factor), Rat(1, 10)))
    IN ("score_breakdown" :> [similarity |-> similarity,
                              genre_match |-> genre_match,
                              theme_match |-> theme_match,
                              director_match |-> RLt(RInt(1), director_bonus)])
       @@ ("recommendation_score" :> final_score)
       @@ candidate

score_candidate(candidate, taste_profile, diversity_factor) ==
    LET similarity == Get(candidate, "base_similarity", RInt(0))
        candidate_genres == ToSet(Get(candidate, "genres", << >>))
        profile_genres == ToSet(taste_profile.top_genres)
        genre_match ==
            Rat(Cardinality(candidate_genres \cap profile_genres),
                IF Cardinality(candidate_genres) > 1
                THEN Cardinality(candidate_genres) ELSE 1)
        director_match ==
            /\ "director" \in DOMAIN candidate
            /\ candidate.director \in ToSet(taste_profile.top_directors)
        director_bonus == IF director_match THEN Rat(12, 10) ELSE RInt(1)
        candidate_themes == ToSet(Get(candidate, "themes", << >>))
        profile_themes == ToSet(taste_profile.top_themes)
        theme_match ==
            IF candidate_themes # {}
            THEN Rat(Cardinality(candidate_themes \cap profile_themes),
                     Cardinality(candidate_themes))
            ELSE RInt(0)
        year == Get(candidate, "year", DefaultYear)
        recency_factor == RMin(Rat(year, RecencyYear), RInt(1))
        base_score == RMul(similarity, Rat(5, 10))
        genre_score == RMul(genre_match, Rat(2, 10))
        theme_score == RMul(theme_match, Rat(15, 100))
        director_score == RMul(RSub(director_bonus, RInt(1)), Rat(15, 100))
        final_score ==
            RAdd(RAdd(RAdd(RAdd(
                RMul(base_score,
                     RSub(RInt(1), RMul(diversity_factor, Rat(3, 10)))),
                genre_score),
                theme_score),
                director_score),
                RMul(RMul(recency_factor, diversity_factor), Rat(1, 10)))
    IN ("score_breakdown" :> [similarity |-> similarity,
                              genre_match |-> genre_match,
                              theme_match |-> theme_match,
                              director_match |-> RLt(RInt(1), director_bonus)])
       @@ ("recommendation_score" :> final_score)
       @@ candidate

\* mutant: the list passed in is sorted in place as well
candidates_after_scoring_sorted_in_place(candidates, taste_profile, diversity_factor) ==
    LET scored == [i \in 1..Len(candidates) |->
                      score_candidate(candidates[i], taste_profile, diversity_factor)]
                  \o << >>
    IN SortedBy(scored,
                [i \in 1..Len(scored) |->
                    Get(scored[i], "recommendation_score", RInt(0))],
                TRUE)

\* the candidates list after _score_candidates: every candidate dict has been
\* given its score in place, the list itself keeps its order
candidates_after_scoring(candidates, taste_profile, diversity_factor) ==
    [i \in 1..Len(candidates) |->
        score_candidate(candidates[i], taste_profile, diversity_factor)] \o << >>

\* the scored candidates sorted by ascending score
score_candidates_ascending(candidates, taste_profile, loved_movies, diversity_factor) ==
    LET scored == candidates_after_scoring(candidates, taste_profile, diversity_factor)
    IN SortedBy(scored,
                [i \in 1..Len(scored) |->
                    Get(scored[i], "recommendation_score", RInt(0))],
                FALSE)

score_candidates(candidates, taste_profile, loved_movies, diversity_factor) ==
    LET scored == [i \in 1..Len(candidates) |->
                      score_candidate(candidates[i], taste_profile, diversity_factor)]
                  \o << >>
    IN SortedBy(scored,
                [i \in 1..Len(scored) |->
                    Get(scored[i], "recommendation_score", RInt(0))],
                TRUE)

RECURSIVE SelectFrom(_, _, _, _, _)
SelectFrom(scored_candidates, k, seen_titles, recommendations, num_recommendations) ==
    IF k > Len(scored_candidates) THEN recommendations
    ELSE LET candidate == scored_candidates[k]
             title_slug == create_slug(Get(candidate, "title", << >>))
         IN IF title_slug \notin seen_titles /\ Get(candidate, "type", "") # "loved"
            THEN IF Len(recommendations) + 1 >= num_recommendations
                 THEN Append(recommendations, candidate)
                 ELSE SelectFrom(scored_candidates, k + 1,
                                 seen_titles \cup {title_slug},
                                 Append(recommendations, candidate),
                                 num_recommendations)
            ELSE SelectFrom(scored_candidates, k + 1, seen_titles,
                            recommendations, num_recommendations)

\* the selection without the seen_titles test
select_top_recommendations_keeping_duplicates(scored_candidates, num_recommendations) ==
    LET kept == SelectSeq(scored_candidates,
                          LAMBDA candidate : Get(candidate, "type", "") # "loved")
    IN Take(kept, IF num_recommendations < 1 THEN 1 ELSE num_recommendations)

select_top_recommendations(scored_candidates, num_recommendations) ==
    SelectFrom(scored_candidates, 1, {}, << >>, num_recommendations)

DefaultRating == RInt(5)

create_recommendation_map(loved_movies, recommendations) ==
    LET loved_nodes ==
            [i \in 1..Len(loved_movies) |->
                LET movie == loved_movies[i]
                IN [id |-> create_slug(Get(movie, "title", << >>)),
                    title |-> Get(movie, "title", None),
                    year |-> Get(movie, "year", None),
                    type |-> "loved",
                    rating |-> Get(movie, "user_rating", DefaultRating),
                    genres |-> Get(movie, "genres", << >>),
                    director |-> Get(movie, "director", "")]]
        recommendation_nodes ==
            [i \in 1..Len(recommendations) |->
                LET rec == recommendations[i]
                IN [id |-> create_slug(Get(rec, "title", << >>)),
                    title |-> Get(rec, "title", None),
                    year |-> Get(rec, "year", None),
                    type |-> "recommendation",
                    score |-> Get(rec, "recommendation_score", RInt(0)),
                    genres |-> Get(rec, "genres", << >>),
                    director |-> Get(rec, "director", ""),
                    similar_to |-> Get(rec, "similar_to", << >>)]]
        nodes == loved_nodes \o recommendation_nodes
        linked == SelectSeq(recommendations,
                            LAMBDA rec : Truthy(Get(rec, "similar_to", << >>)))
        edges ==
            [i \in 1..Len(linked) |->
                [source |-> create_slug(linked[i].similar_to),
                 target |-> create_slug(Get(linked[i], "title", << >>)),
                 weight |-> Get(linked[i], "base_similarity", RInt(0)),
                 type |-> "similarity"]]
    IN [nodes |-> nodes,
        edges |-> edges,
        total_nodes |-> Len(nodes),
        total_edges |-> Len(edges)]

ClassicBefore == 1990

ContemporaryAfter == 2010

HighScore == Rat(7, 10)

ManyHighScores == 5

\* each insight is the fixed sentence with the value filled in, kept as tokens
generate_insights(taste_profile, recommendations) ==
    LET genre_insight ==
            IF taste_profile.top_genres # << >>
            THEN <<<<"Your taste strongly favors", taste_profile.top_genres[1], "films">>>>
            ELSE << >>
        director_insight ==
            IF taste_profile.top_directors # << >>
            THEN <<<<"You're a fan of", taste_profile.top_directors[1], "'s work">>>>
            ELSE << >>
        avg_year == taste_profile.average_year
        era_insight ==
            IF RLt(avg_year, RInt(ClassicBefore))
            THEN <<<<"You appreciate classic cinema">>>>
            ELSE IF RLt(RInt(ContemporaryAfter), avg_year)
            THEN <<<<"You enjoy contemporary films">>>>
            ELSE <<<<"You have an eclectic taste spanning different eras">>>>
        high_score_count ==
            Cardinality({i \in 1..Len(recommendations) :
                RLt(HighScore, Get(recommendations[i], "recommendation_score", RInt(0)))})
        recommendation_insight ==
            IF recommendations # << >> /\ high_score_count > ManyHighScores
            THEN <<<<"Found", high_score_count, "highly matched recommendations for you">>>>
            ELSE << >>
    IN genre_insight \o director_insight \o era_insight \o recommendation_insight

\* the rated films of a call: user_rated_movies is None or <<the list>>
RatedOrLoved(user_loved_movies, user_rated_movies) ==
    IF user_rated_movies = None THEN user_loved_movies ELSE user_rated_movies[1]

\* the candidates one loved film contributes: the films of its search answer
\* whose slug is not excluded, each marked with the loved film's title
CandidatesOf(movie, similar, excluded_slugs) ==
    LET kept == SelectSeq(similar, LAMBDA candidate :
                    create_slug(Get(candidate, "title", << >>)) \notin excluded_slugs)
    IN [i \in 1..Len(kept) |->
            ("base_similarity" :> Get(kept[i], "similarity_score", RInt(0)))
            @@ ("similar_to" :> Get(movie, "title", None))
            @@ kept[i]]

\* generate_recommendations after _ensure_movies_analyzed; similar[k] is the
\* answer of find_similar_movies for the k-th loved film.  The result's
\* generated_at (the clock) is left out.
generate_recommendations(user_loved_movies, user_rated_movies, num_recommendations, diversity_factor, similar) ==
    LET rated == RatedOrLoved(user_loved_movies, user_rated_movies)
        excluded_slugs == {create_slug(Get(rated[i], "title", << >>)) :
                              i \in 1..Len(rated)}
        taste_profile == analyze_taste_profile(user_loved_movies)
        all_candidates ==
            Flatten([k \in 1..Len(user_loved_movies) |->
                        CandidatesOf(user_loved_movies[k], similar[k], excluded_slugs)])
        scored_recommendations ==
            score_candidates(all_candidates, taste_profile, user_loved_movies,
                             diversity_factor)
        final_recommendations ==
            select_top_recommendations(scored_recommendations, num_recommendations)
    IN [recommendations |-> final_recommendations,
        taste_profile |-> taste_profile,
        recommendation_map |-> create_recommendation_map(user_loved_movies,
                                                         final_recommendations),
        insights |-> generate_insights(taste_profile, final_recommendations)]

\* analyze_and_store_movie while store operations raise: the method's
\* except clause catches the exception and the store is as it was
analyze_and_store_movie_store_failing(collection, movie_data, outcome, failing) ==
    IF "get" \in failing THEN collection
    ELSE IF collection_get(collection, analyze_slug(movie_data)) # << >> THEN collection
    ELSE IF "add" \in failing THEN collection
    ELSE analyze_and_store_movie(collection, movie_data, outcome)

\* _ensure_movies_analyzed while store operations raise: its own lookup
\* stands outside every try, so the exception leaves the method
RECURSIVE EnsureStoreFailingFrom(_, _, _, _, _)
EnsureStoreFailingFrom(collection, movies, k, outcomes, failing) ==
    IF k > Len(movies) THEN [raised |-> FALSE, collection |-> collection]
    ELSE IF "get" \in failing THEN [raised |-> TRUE, collection |-> collection]
    ELSE LET movie == movies[k]
             movie_slug == create_slug(Get(movie, "title", << >>))
             existing == collection_get(collection, movie_slug)
         IN EnsureStoreFailingFrom(
                IF Len(existing) = 0
                THEN analyze_and_store_movie_store_failing(collection, movie,
                                                           outcomes[k], failing)
                ELSE collection,
                movies, k + 1, outcomes, failing)

ensure_movies_analyzed_store_failing(collection, movies, outcomes, failing) ==
    EnsureStoreFailingFrom(collection, movies, 1, outcomes, failing)

\* find_similar_movies while store operations raise: the method's except
\* clause answers the empty list
find_similar_movies_store_failing(collection, movie_id, limit, tiebreak, failing) ==
    IF "get" \in failing THEN << >>
    ELSE IF movie_id \notin DOMAIN collection THEN << >>
    ELSE IF "query" \in failing THEN << >>
    ELSE find_similar_movies(collection, movie_id, limit, tiebreak)

\* one call of analyze_and_store_movie: the store after it, its return
\* value, whether the AI analysis ran, and the id it passed to the store's
\* add (None when it made no insert).  An add under an id the store already
\* holds is dropped by some ChromaDB versions and raises in others
\* (duplicate_raises); the method's except clause turns the exception into
\* the return value False.
analyze_and_store_movie_call(collection, movie_data, outcome, duplicate_raises) ==
    LET movie_slug == analyze_slug(movie_data)
        movie_id == store_id(movie_data)
    IN IF collection_get(collection, movie_slug) # << >>
       THEN [collection |-> collection, returned |-> FALSE,
             analyzed |-> FALSE, inserted |-> None]
       ELSE IF movie_id \in DOMAIN collection /\ duplicate_raises
       THEN [collection |-> collection, returned |-> FALSE,
             analyzed |-> TRUE, inserted |-> <<movie_id>>]
       ELSE [collection |-> analyze_and_store_movie(collection, movie_data, outcome),
             returned |-> TRUE, analyzed |-> TRUE, inserted |-> <<movie_id>>]

SimilarLimit == 10

SearchesStoreFailing(collection, movies, tiebreak, failing) ==
    [k \in 1..Len(movies) |->
        find_similar_movies_store_failing(
            collection, create_slug(Get(movies[k], "title", << >>)),
            SimilarLimit, tiebreak, failing)]

\* the searches of step 3: the answer of find_similar_movies for each loved
\* film
Searches(collection, movies, tiebreak) ==
    [k \in 1..Len(movies) |->
        find_similar_movies(collection,
                            create_slug(Get(movies[k], "title", << >>)),
                            SimilarLimit, tiebreak)]

(***************************************************************************)
(* TasteFingerprintGenerator: comparing taste vectors.  A vector is a      *)
(* sequence of rationals; the vectors compared have rational norms.        *)
(***************************************************************************)
\* np.dot(vector1, vector2)
RECURSIVE VDotBetween(_, _, _, _)
VDotBetween(vector1, vector2, lo, hi) ==
    IF lo > hi THEN RInt(0)
    ELSE IF lo = hi THEN RMul(vector1[lo], vector2[lo])
    ELSE LET mid == (lo + hi) \div 2
         IN RAdd(VDotBetween(vector1, vector2, lo, mid),
                 VDotBetween(vector1, vector2, mid + 1, hi))

VDot(vector1, vector2) == VDotBetween(vector1, vector2, 1, Len(vector1))

\* the square root of a perfect square
ISqrt(n) == CHOOSE k \in 0..n : k * k = n

\* the square root of the square of a rational
RSqrt(r) == Rat(ISqrt(r[1]), ISqrt(r[2]))

\* np.linalg.norm(vector)
VNorm(vector) == RSqrt(VDot(vector, vector))

\* a / b
RDiv(a, b) == IF b[1] < 0 THEN Rat((0 - a[1]) * b[2], a[2] * (0 - b[1]))
              ELSE Rat(a[1] * b[2], a[2] * b[1])

\* the similarity without the division by the norms
calculate_similarity_unnormalized(vector1, vector2) ==
    IF VNorm(vector1) = RInt(0) \/ VNorm(vector2) = RInt(0)
    THEN RInt(0)
    ELSE VDot(vector1, vector2)

calculate_similarity(vector1, vector2) ==
    LET dot_product == VDot(vector1, vector2)
        norm1 == VNorm(vector1)
        norm2 == VNorm(vector2)
    IN IF norm1 = RInt(0) \/ norm2 = RInt(0)
       THEN RInt(0)
       ELSE RDiv(dot_product, RMul(norm1, norm2))

RAbs(a) == <<Abs(a[1]), a[2]>>

explanations ==
    [color_palette_psychology |-> "shares your color palette sensibility",
     lighting_philosophy |-> "uses light the way you respond to",
     camera_movement_personality |-> "moves the camera in ways you find natural",
     editing_tempo |-> "breathes at your preferred rhythm",
     score_emotional_temperature |-> "uses music to evoke emotion the way you like",
     philosophical_stance |-> "shares your worldview about human nature",
     emotional_temperature |-> "matches your emotional processing style",
     mystery_comfort |-> "handles ambiguity the way you prefer",
     cinematic_realism_spectrum |-> "balances realism and stylization as you like",
     vulnerability_exposure |-> "reveals interiority at your comfort level"]

ExplainedMatches == 3

\* the explanation over all the matches passed, not the first three
explain_match_every_match(top_matches) ==
    LET explained == SelectSeq(top_matches, LAMBDA match : match[1] \in DOMAIN explanations)
        parts == <<"This film matches your taste because it">>
                 \o [i \in 1..Len(explained) |-> explanations[explained[i][1]]]
    IN <<" ">> \o JoinTokens(", ", parts) \o <<".">>

\* " " + ", ".join(parts) + ".", the parts kept as tokens
explain_match(top_matches) ==
    LET explained == SelectSeq(Take(top_matches, ExplainedMatches),
                               LAMBDA match : match[1] \in DOMAIN explanations)
        parts == <<"This film matches your taste because it">>
                 \o [i \in 1..Len(explained) |-> explanations[explained[i][1]]]
    IN <<" ">> \o JoinTokens(", ", parts) \o <<".">>

\* list[-n:]
LastN(s, n) == SubSeq(s, IF Len(s) > n THEN Len(s) - n + 1 ELSE 1, Len(s))

TopMatching == 10

BottomMatching == 5

MatchesExplained == 5

match_film_to_taste(film_vector, user_taste_vector) ==
    LET similarity_score == calculate_similarity(film_vector, user_taste_vector)
        dimension_alignment ==
            [i \in 1..Len(dimension_names) |->
                <<dimension_names[i],
                  RSub(RInt(1), RAbs(RSub(film_vector[i], user_taste_vector[i])))>>]
            \o << >>
        sorted_alignment ==
            SortedBy(dimension_alignment,
                     [i \in 1..Len(dimension_alignment) |-> dimension_alignment[i][2]],
                     TRUE)
    IN [overall_similarity |-> similarity_score,
        top_matching_dimensions |-> Take(sorted_alignment, TopMatching),
        bottom_matching_dimensions |-> LastN(sorted_alignment, BottomMatching),
        match_explanation |-> explain_match(Take(sorted_alignment, MatchesExplained))]

(***************************************************************************)
(* Inputs of the vector comparison: 62-entry vectors given as runs of      *)
(* <<count, value>>.                                                       *)
(***************************************************************************)
RECURSIVE Runs(_, _)
Runs(runs, k) ==
    IF k > Len(runs) THEN << >>
    ELSE [i \in 1..runs[k][1] |-> runs[k][2]] \o Runs(runs, k + 1)

VectorPool ==
    {Runs(<<<<62, RInt(0)>>>>, 1),
     Runs(<<<<49, RInt(1)>>, <<13, RInt(0)>>>>, 1),
     Runs(<<<<3, RInt(0)>>, <<4, RInt(1)>>, <<55, RInt(0)>>>>, 1),
     Runs(<<<<36, Rat(1, 2)>>, <<26, RInt(0)>>>>, 1),
     Runs(<<<<2, RInt(1)>>, <<3, Rat(1, 2)>>, <<5, Rat(1, 4)>>, <<52, RInt(0)>>>>, 1),
     Runs(<<<<58, RInt(0)>>, <<4, RInt(1)>>>>, 1),
     Runs(<<<<1, RInt(0 - 1)>>, <<3, RInt(1)>>, <<58, RInt(0)>>>>, 1),
     Runs(<<<<9, RInt(0)>>, <<16, Rat(1, 4)>>, <<37, RInt(0)>>>>, 1)}

(***************************************************************************)
(* Inputs of the fingerprint generator: loved films with the scores map    *)
(* the scoring collaborator supplied for them.                             *)
(***************************************************************************)
Uniform(v) == [dim \in DimSet |-> v]

\* scores by position in the registry, cycling through a list of values
Cycled(values) ==
    [dim \in DimSet |->
        LET i == CHOOSE k \in 1..Len(dimension_names) : dimension_names[k] = dim
        IN values[((i - 1) % Len(values)) + 1]]

WithScore(scores, dim, v) ==
    [d \in DOMAIN scores \cup {dim} |-> IF d = dim THEN v ELSE scores[d]]

ScoredMovie(title, scores) == [title |-> title, dimensional_scores |-> scores]

Moonlight ==
    ScoredMovie("Moonlight", WithScore(Uniform(RInt(2)), "temporal_structure", RInt(6)))

MoviePool ==
    { Moonlight,
      ScoredMovie("Uniform High", Uniform(RInt(6))),
      ScoredMovie("Graded",
          Cycled(<<RInt(1), RInt(2), Rat(5, 2), RInt(3), RInt(4), RInt(5),
                   Rat(11, 2), RInt(7)>>)),
      ScoredMovie("Near Thresholds",
          Cycled(<<RInt(7), Rat(11, 4), RInt(3), Rat(21, 4), Rat(11, 2)>>)),
      ScoredMovie("Sparse",
          [dim \in {"editing_tempo", "temporal_structure", "beauty_priority",
                    "made_up_dimension", "craft_precision_vs_rawness",
                    "art_cinema_vs_pop_cinema_mode", "narrative_ambition_level",
                    "irony_sincerity_register", "emotional_weight_tolerance",
                    "performance_style_preference",
                    "script_construction_visibility",
                    "auteur_intentionality_desire"} |->
              CASE dim = "editing_tempo" -> RInt(1)
                [] dim = "temporal_structure" -> None
                [] dim = "beauty_priority" -> RInt(7)
                [] dim = "made_up_dimension" -> RInt(7)
                [] OTHER -> RInt(6)]),
      ScoredMovie("Sparse Two",
          [dim \in {"editing_tempo", "temporal_structure", "beauty_priority",
                    "shadow_ratio", "spatial_density"} |->
              CASE dim = "editing_tempo" -> RInt(4)
                [] dim = "temporal_structure" -> RInt(5)
                [] dim = "shadow_ratio" -> Rat(5, 2)
                [] dim = "spatial_density" -> Rat(11, 2)
                [] OTHER -> Rat(3, 2)]),
      ScoredMovie("Empty Scores", << >>),
      [title |-> "Unscored"],
      ScoredMovie("Out Of Range",
          [dim \in {"color_palette_psychology", "editing_tempo"} |->
              IF dim = "editing_tempo" THEN RInt(0) ELSE RInt(9)]) }

MaxMovies == 2

(***************************************************************************)
(* The movie metadata services: MultiAPIMovieService.get_movie_data and    *)
(* AlternativeMovieAPI.search_movie_by_title.  A reply of a web source is  *)
(* [kind |-> "raised"] (the request raised), [kind |-> "status"] (an HTTP  *)
(* status other than 200) or [kind |-> "json", data |-> the parsed body].  *)
(* The empty dict {} and None are both << >>.  Of a film record the fields *)
(* title, year, director, cast, genres, plot_summary and source are kept.  *)
(* The year argument is None or <<the year>>.                              *)
(***************************************************************************)
\* the value of a string of digits
RECURSIVE DigitsValue(_)
DigitsValue(str) ==
    IF str = << >> THEN 0
    ELSE 10 * DigitsValue(SubSeq(str, 1, Len(str) - 1))
         + ((CHOOSE d \in 1..10 : DigitChars[d] = str[Len(str)]) - 1)

\* the digits from position k up to the first character that is no digit
RECURSIVE DigitRun(_, _)
DigitRun(str, k) ==
    IF k > Len(str) \/ str[k] \notin Digits THEN << >>
    ELSE <<str[k]>> \o DigitRun(str, k + 1)

\* _safe_int of a string (or of nothing): the first number in it, else 0
safe_int(value) ==
    LET starts == {k \in 1..Len(value) : value[k] \in Digits}
    IN IF starts = {} THEN 0
       ELSE DigitsValue(DigitRun(value, CHOOSE k \in starts : \A j \in starts : k <= j))

NotAvailable == <<"N/A">>

\* _parse_genres of a comma-separated string, given as its parts and commas
parse_genres(genres_str) ==
    IF genres_str = << >> \/ genres_str = NotAvailable
    THEN <<"Drama">>
    ELSE SelectSeq(genres_str, LAMBDA g : g # "," /\ g # "")

CastKept == 5

\* _parse_cast of a comma-separated string, given as its parts and commas
parse_cast(cast_str) ==
    IF cast_str = << >> \/ cast_str = NotAvailable
    THEN << >>
    ELSE Take(SelectSeq(cast_str, LAMBDA a : a # "," /\ a # ""), CastKept)

normalize_omdb_data(data) ==
    [title |-> Get(data, "Title", << >>),
     year |-> safe_int(Get(data, "Year", << >>)),
     director |-> Get(data, "Director", ""),
     cast |-> parse_cast(Get(data, "Actors", << >>)),
     genres |-> parse_genres(Get(data, "Genre", << >>)),
     plot_summary |-> Get(data, "Plot", ""),
     source |-> "omdb"]

\* get_omdb_data: the normalized film, or {} when the request raised, the
\* status was not 200 or the Response field was not 'True'
get_omdb_data(title, year, reply) ==
    IF reply.kind = "json" /\ Get(reply.data, "Response", "") = "True"
    THEN normalize_omdb_data(reply.data)
    ELSE << >>

normalize_free_imdb_data(data) ==
    [title |-> Get(data, "title", Get(data, "Title", << >>)),
     year |-> safe_int(Get(data, "year", Get(data, "Year", << >>))),
     director |-> Get(data, "director", Get(data, "Director", "")),
     cast |-> parse_cast(Get(data, "cast", Get(data, "Actors", << >>))),
     genres |-> parse_genres(Get(data, "genre", Get(data, "Genre", << >>))),
     plot_summary |-> Get(data, "plot", Get(data, "Plot", "")),
     source |-> "free_imdb"]

\* a in b, of two strings
IsSubstring(a, b) ==
    \E i \in 0..(Len(b) - Len(a)) : SubSeq(b, i + 1, i + Len(a)) = a

\* _find_best_match: the first result whose title is the title sought (or
\* holds it, or is held by it) in an acceptable year, else the first result
find_best_match(results, title, year) ==
    LET title_lower == Lower(title)
        movie_title(movie) == Lower(Get(movie, "title", Get(movie, "Title", << >>)))
        movie_year(movie) == safe_int(Get(movie, "year", Get(movie, "Year", << >>)))
        matches(movie) ==
            \/ /\ movie_title(movie) = title_lower
               /\ year = None \/ movie_year(movie) = year[1]
            \/ /\ \/ IsSubstring(title_lower, movie_title(movie))
                  \/ IsSubstring(movie_title(movie), title_lower)
               /\ year = None \/ Abs(movie_year(movie) - year[1]) <= 1
        matching == {k \in 1..Len(results) : matches(results[k])}
    IN IF matching # {}
       THEN results[CHOOSE k \in matching : \A j \in matching : k <= j]
       ELSE IF results # << >> THEN results[1] ELSE << >>

\* get_free_imdb_data: reply.search answers the search, reply.detail the
\* request for the film found
get_free_imdb_data(title, year, reply) ==
    IF reply.search.kind # "json" THEN << >>
    ELSE IF Get(reply.search.data, "results", << >>) = << >> THEN << >>
    ELSE LET best_match == find_best_match(reply.search.data.results, title, year)
         IN IF best_match = << >> THEN << >>
            ELSE IF Get(best_match, "id", "") = "" THEN << >>
            ELSE IF reply.detail.kind # "json" THEN << >>
            ELSE normalize_free_imdb_data(reply.detail.data)

\* mutant: Free IMDb is asked first and OMDb only if it yields nothing
get_movie_data_free_imdb_first(title, year, sources) ==
    LET free_imdb_data == get_free_imdb_data(title, year, sources.free_imdb)
        omdb_data == get_omdb_data(title, year, sources.omdb)
        movie_data ==
            IF free_imdb_data # << >>
            THEN ("primary_source" :> "free_imdb") @@ free_imdb_data
            ELSE IF omdb_data # << >>
            THEN ("primary_source" :> "omdb") @@ omdb_data
            ELSE << >>
    IN movie_data

\* get_movie_data(title, year): sources holds the replies of OMDb and Free
\* IMDb, whether a Watchmode key is configured, and what
\* get_watchmode_streaming and get_tastedive_similar return
get_movie_data(title, year, sources) ==
    LET omdb_data == get_omdb_data(title, year, sources.omdb)
        free_imdb_data == get_free_imdb_data(title, year, sources.free_imdb)
        movie_data ==
            IF omdb_data # << >>
            THEN ("primary_source" :> "omdb") @@ omdb_data
            ELSE IF free_imdb_data # << >>
            THEN ("primary_source" :> "free_imdb") @@ free_imdb_data
            ELSE << >>
        with_streaming ==
            IF movie_data # << >> /\ sources.watchmode_key /\ sources.streaming # << >>
            THEN ("streaming" :> sources.streaming) @@ movie_data
            ELSE movie_data
    IN IF movie_data # << >> /\ sources.similar_movies # << >>
       THEN ("similar_movies" :> sources.similar_movies) @@ with_streaming
       ELSE with_streaming

\* _search_wikipedia: the film as asked for, with the page's extract
search_wikipedia(title, year, reply) ==
    IF reply.kind = "json"
    THEN [title |-> title,
          year |-> year,
          director |-> "Unknown",
          genres |-> <<"Drama">>,
          cast |-> << >>,
          plot_summary |-> Get(reply.data, "extract", ""),
          source |-> "wikipedia"]
    ELSE None

\* _search_justwatch: the first item whose title is the title sought
search_justwatch(title, year, reply) ==
    IF reply.kind # "json" THEN None
    ELSE LET results == Get(reply.data, "items", << >>)
             matching == {k \in 1..Len(results) :
                             Lower(Get(results[k], "title", << >>)) = Lower(title)}
         IN IF matching = {} THEN None
            ELSE LET item == results[CHOOSE k \in matching : \A j \in matching : k <= j]
                     genre_names == Get(item, "genre_names", << >>)
                 IN [title |-> Get(item, "title", title),
                     year |-> IF "original_release_year" \in DOMAIN item
                              THEN <<item.original_release_year>> ELSE year,
                     director |-> "Unknown",
                     genres |-> [g \in 1..Len(genre_names) |->
                                    Get(genre_names[g], "translation", "Drama")],
                     cast |-> << >>,
                     plot_summary |-> Get(item, "short_description", ""),
                     source |-> "justwatch"]

\* the record search_movie_by_title gives when no source knows the film
fallback_movie(title, year) ==
    [title |-> title,
     year |-> year,
     director |-> "Unknown",
     genres |-> <<"Drama">>,
     cast |-> << >>,
     plot_summary |-> <<"Information for ", title, " not available.">>,
     source |-> "fallback"]

\* mutant: no record when neither source knows the film
search_movie_by_title_without_fallback(title, year, sources) ==
    LET wiki_data == search_wikipedia(title, year, sources.wikipedia)
        justwatch_data == search_justwatch(title, year, sources.justwatch)
    IN IF wiki_data # None THEN wiki_data
       ELSE IF justwatch_data # None THEN justwatch_data
       ELSE None

\* search_movie_by_title(title, year)
search_movie_by_title(title, year, sources) ==
    LET wiki_data == search_wikipedia(title, year, sources.wikipedia)
        justwatch_data == search_justwatch(title, year, sources.justwatch)
    IN IF wiki_data # None THEN wiki_data
       ELSE IF justwatch_data # None THEN justwatch_data
       ELSE fallback_movie(title, year)

(***************************************************************************)
(* The /api/analyze_profile handler and the scraper's enrichment step.     *)
(* A user name is a string of characters; the responses of a request are   *)
(* the sequence of responses the handler sends for it.                     *)
(***************************************************************************)
\* LetterboxdScraper.enrich_ratings_with_movie_data(ratings, movie_service):
\* movie_service gives get_movie_data's record for a title ({} when no
\* source finds the film); a rating without a record is left out
enrich_ratings_with_movie_data(ratings, movie_service) ==
    LET enriched(rating) ==
            [user_rating |-> Get(rating, "rating", None),
             letterboxd_slug |-> Get(rating, "movie_slug", None)]
            @@ movie_service[Get(rating, "movie_title", None)]
    IN [k \in 1..Len(SelectSeq(ratings, LAMBDA rating :
                        movie_service[Get(rating, "movie_title", None)] # << >>)) |->
           enriched(SelectSeq(ratings, LAMBDA rating :
                        movie_service[Get(rating, "movie_title", None)] # << >>)[k])]

\* the parameters of enrich_ratings_with_movie_data after self
enrich_parameters == <<"ratings", "movie_service">>

\* a call of enrich_ratings_with_movie_data with the positional arguments
\* given: Python raises TypeError when a parameter gets no argument
call_enrich_ratings_with_movie_data(arguments) ==
    IF Len(arguments) # Len(enrich_parameters)
    THEN [raised |-> TRUE, value |-> None]
    ELSE [raised |-> FALSE,
          value |-> enrich_ratings_with_movie_data(arguments[1], arguments[2])]

LovedRating == 4

LovedShown == 20

\* send_error(code, message)
send_error(code, message) == [status |-> code, message |-> message]

\* handler.do_POST: request.body is [kind |-> "invalid"] (no readable JSON
\* body) or [kind |-> "json", data |-> the object]; world holds whether the
\* scraper module loaded and what get_user_profile and get_user_ratings
\* return
do_POST(request, world) ==
    IF request.body.kind # "json" THEN <<send_error(500, "exception")>>
    ELSE LET username == Get(request.body.data, "username", None)
             ratings == world.ratings
             unrated == {k \in 1..Len(ratings) :
                            "rating" \in DOMAIN ratings[k] /\ ratings[k].rating = None}
             loved_movies ==
                 SelectSeq(ratings, LAMBDA r :
                     RLe(RInt(LovedRating), Get(r, "rating", RInt(0))))
             enriched == call_enrich_ratings_with_movie_data(
                             <<Take(loved_movies, LovedShown)>>)
         IN IF username = None THEN <<send_error(400, "Username is required")>>
            ELSE IF ~world.scraper_available
            THEN <<send_error(500, "Letterboxd scraper not available")>>
            ELSE IF world.profile = None THEN <<send_error(404, "Profile not found")>>
            ELSE IF unrated # {} THEN <<send_error(500, "exception")>>
            ELSE IF enriched.raised THEN <<send_error(500, "exception")>>
            ELSE <<[status |-> 200,
                    body |-> [success |-> TRUE,
                              data |-> [profile |-> world.profile,
                                        loved_movies |-> enriched.value,
                                        total_ratings |-> Len(ratings)]]]>>

(***************************************************************************)
(* Inputs of the recommendation engine: films as the callers pass them,    *)
(* what OpenAI answers while a film is analyzed, and the calls made.       *)
(***************************************************************************)
Her ==
    [title |-> <<"H", "e", "r">>, year |-> 2013, director |-> "Spike Jonze",
     genres |-> <<"Drama", "Romance">>]

\* another film whose title normalizes to the slug of Her
HerShout ==
    [title |-> <<"h", "e", "r", "!">>, year |-> 1990, director |-> "N/A",
     genres |-> <<"Drama">>, themes |-> <<"general">>]

Up ==
    [title |-> <<"U", "p">>, year |-> 2009, director |-> "Pete Docter",
     genres |-> <<"Animation", "Drama">>, cast |-> <<"Ed Asner">>,
     mood |-> "warm", user_rating |-> Rat(9, 2)]

\* a title with an apostrophe and a space
DontGo ==
    [title |-> <<"D", "o", "n", "'", "t", " ", "G", "o">>, year |-> 2024,
     director |-> "Spike Jonze", genres |-> <<"Drama">>]

\* a rating as the profile scraper records it: no 'title' key
ScrapedRating ==
    [movie_title |-> <<"H", "e", "r">>, movie_slug |-> <<"h", "e", "r">>,
     rating |-> Rat(9, 2)]

FilmPool == {Her, HerShout, DontGo}

EliteReply ==
    [dimensional_scores |-> [editing_tempo |-> RInt(6)],
     core_essence |-> <<"q", "u", "i", "e", "t">>,
     human_condition_themes |-> <<"loneliness">>]

\* a reply that parses but carries no dimensional scores
UnscoredReply == [core_essence |-> <<"q", "u", "i", "e", "t">>]

\* the embedding the embeddings model gives each film
EmbeddingOf(movie_data) ==
    CASE movie_data.title = Her.title -> <<1, 0>>
      [] movie_data.title = HerShout.title -> <<3, 4>>
      [] movie_data.title = Up.title -> <<4, 3>>
      [] OTHER -> <<5, 12>>

\* what OpenAI can answer while a film is analyzed: a scored reply, a reply
\* without scores, or errors
Outcomes(movie_data) ==
    {[ai |-> <<EliteReply>>, embedding |-> <<EmbeddingOf(movie_data)>>],
     [ai |-> <<UnscoredReply>>, embedding |-> <<EmbeddingOf(movie_data)>>],
     [ai |-> << >>, embedding |-> << >>]}

\* one outcome per film of the list from the k-th on; a film the store
\* already holds under its slug is not analyzed, so its outcome is not varied
RECURSIVE OutcomesFrom(_, _, _)
OutcomesFrom(collection, movies, k) ==
    IF k > Len(movies) THEN {<< >>}
    ELSE LET movie_slug == create_slug(Get(movies[k], "title", << >>))
             possible == IF collection_get(collection, movie_slug) = << >>
                         THEN Outcomes(movies[k])
                         ELSE {[ai |-> << >>, embedding |-> << >>]}
         IN {<<outcome>> \o rest :
                outcome \in possible,
                rest \in OutcomesFrom(collection, movies, k + 1)}

LovedLists == {<< >>, <<Up>>, <<Up, Her>>, <<DontGo>>}

Requests ==
    {[user_rated_movies |-> None, num_recommendations |-> 10,
      diversity_factor |-> Rat(3, 10)],
     [user_rated_movies |-> <<<<Up, Her>>>>, num_recommendations |-> 10,
      diversity_factor |-> RInt(1)],
     [user_rated_movies |-> <<<< >>>>, num_recommendations |-> 1,
      diversity_factor |-> RInt(0)],
     [user_rated_movies |-> <<<<ScrapedRating>>>>, num_recommendations |-> 0,
      diversity_factor |-> Rat(3, 10)]}

MaxStored == 2

\* the titles and years films are looked up by
LookupTitles == {<<"U", "p">>, <<"H", "e", "r">>}

LookupYears == {None, <<2009>>}

UpAtOmdb ==
    [Response |-> "True", Title |-> <<"U", "p">>, Year |-> <<"2", "0", "0", "9">>,
     Director |-> "Pete Docter", Actors |-> <<"Ed Asner", ",", "Jordan Nagai">>,
     Genre |-> <<"Animation", ",", "Drama">>, Plot |-> "A balloon trip."]

\* what OMDb can answer
OmdbReplies ==
    {[kind |-> "raised"], [kind |-> "status"],
     [kind |-> "json", data |-> [Response |-> "False", Error |-> "Movie not found!"]],
     [kind |-> "json", data |-> UpAtOmdb]}

UpAtFreeImdb ==
    [title |-> <<"U", "p">>, year |-> <<"2", "0", "0", "9">>, genre |-> NotAvailable]

\* what Free IMDb can answer to the search and to the request for the film
FreeImdbReplies ==
    {[search |-> [kind |-> "raised"], detail |-> [kind |-> "raised"]],
     [search |-> [kind |-> "json", data |-> [results |-> << >>]],
      detail |-> [kind |-> "raised"]],
     [search |-> [kind |-> "json",
                  data |-> [results |-> <<[title |-> <<"U", "p", "s">>,
                                           year |-> <<"1", "9", "9", "0">>]>>]],
      detail |-> [kind |-> "json", data |-> UpAtFreeImdb]],
     [search |-> [kind |-> "json",
                  data |-> [results |-> <<[id |-> "tt1", title |-> <<"U", "p">>,
                                           year |-> <<"2", "0", "0", "9">>]>>]],
      detail |-> [kind |-> "status"]],
     [search |-> [kind |-> "json",
                  data |-> [results |-> <<[id |-> "tt0", title |-> <<"H", "u", "d">>],
                                          [id |-> "tt1", title |-> <<"U", "p">>,
                                           year |-> <<"2", "0", "0", "9">>]>>]],
      detail |-> [kind |-> "json", data |-> UpAtFreeImdb]]}

\* the web sources and helpers of MultiAPIMovieService during one lookup
MultiAPISources ==
    [omdb : OmdbReplies,
     free_imdb : FreeImdbReplies,
     watchmode_key : BOOLEAN,
     streaming : {<< >>, [netflix |-> "subscription"]},
     similar_movies : {<< >>, <<[title |-> <<"W", "A", "L", "L", "E">>]>>}]

WikipediaReplies ==
    {[kind |-> "raised"], [kind |-> "status"],
     [kind |-> "json", data |-> [extract |-> "A 2009 animated film."]]}

JustWatchReplies ==
    {[kind |-> "raised"], [kind |-> "status"],
     [kind |-> "json", data |-> [items |-> <<[title |-> <<"H", "u", "d">>]>>]],
     [kind |-> "json",
      data |-> [items |-> <<[title |-> <<"U", "P">>, original_release_year |-> 2009,
                             genre_names |-> <<[translation |-> "Animation"],
                                               [id |-> 7]>>]>>]]}

\* the web sources of AlternativeMovieAPI during one lookup
AlternativeSources == [wikipedia : WikipediaReplies, justwatch : JustWatchReplies]

\* what the chat model can do when a film is analyzed: raise, answer text
\* that is no JSON, answer JSON without scores, answer a scored analysis
Replies ==
    {[kind |-> "raised"], [kind |-> "not_json"],
     [kind |-> "json", object |-> UnscoredReply],
     [kind |-> "json", object |-> EliteReply]}

\* films collected beside the analyses: one with scores, one with an empty
\* scores map, one without the key
CollectedPool ==
    {Moonlight, ScoredMovie("Empty Scores", << >>), [title |-> "Unscored"]}

\* the films handed to the analyzer on its own
AnalyzerFilms == {Her, Up, DontGo}

\* an embedding the embeddings model gives more than one film
SharedEmbedding == <<1, 0>>

\* what OpenAI can answer while the analyzer is used on its own: success,
\* success with an embedding shared with other films, or errors
AnalyzerOutcomes(movie_data) ==
    {[ai |-> <<EliteReply>>, embedding |-> <<EmbeddingOf(movie_data)>>],
     [ai |-> <<EliteReply>>, embedding |-> <<SharedEmbedding>>],
     [ai |-> << >>, embedding |-> << >>]}

\* the ids searched for: those of the films, and one the store never holds
QueryIds == {store_id(movie_data) : movie_data \in AnalyzerFilms} \cup {<<"x">>}

Limits == {0, 1, 2, 10}

\* the store operations that raise during a similarity search
SearchFailures == {{}, {"get"}, {"query"}}

MaxCalls == 2

\* the store operations that raise during a call: the existence lookup, the
\* insert, the nearest-neighbour query, or all of them
StoreFailures == {{"get"}, {"add"}, {"query"}, {"get", "add", "query"}}

(***************************************************************************)
(* Inputs of the scoring and selection steps: candidates as                *)
(* generate_recommendations gathers them (a stored film plus               *)
(* base_similarity and similar_to), loved lists, diversity factors and     *)
(* numbers of recommendations.                                             *)
(***************************************************************************)
\* recency 1818 / 2020 = 0.9, both genres loved, no themes, director unknown
OldRomance ==
    [title |-> <<"O", "l", "d">>, year |-> 1818, director |-> "Fritz Lang",
     genres |-> <<"Drama", "Romance">>, base_similarity |-> Rat(4, 5),
     similar_to |-> Her.title]

\* another title with the fields, and so the score, of OldRomance
OldRomanceTwin ==
    [title |-> <<"O", "l", "d", " ", "2">>, year |-> 1818, director |-> "Fritz Lang",
     genres |-> <<"Drama", "Romance">>, base_similarity |-> Rat(4, 5),
     similar_to |-> Up.title]

\* every component at its largest
HerAgain ==
    [title |-> <<"H", "e", "r">>, year |-> 2024, director |-> "Spike Jonze",
     genres |-> <<"Drama">>, themes |-> <<"general">>,
     base_similarity |-> RInt(1), similar_to |-> Up.title]

\* shares the slug of HerAgain; half of its genres and themes are loved
HerShoutFound ==
    [title |-> <<"h", "e", "r", "!">>, year |-> 1990, director |-> "N/A",
     genres |-> <<"Drama", "Horror">>, themes |-> <<"general", "loss">>,
     base_similarity |-> Rat(3, 5), similar_to |-> Up.title]

\* a stored film with nothing but a title
UpBare == [title |-> <<"U", "p">>]

\* a node of a recommendation map handed back as a candidate
UpLoved ==
    [title |-> <<"u", "p">>, type |-> "loved", year |-> 2009,
     genres |-> <<"Animation">>, base_similarity |-> Rat(9, 10)]

\* a film at cosine distance 6/5
Opposite ==
    [title |-> <<"G", "o">>, year |-> 0, base_similarity |-> Rat(0 - 1, 5)]

CandidatePool ==
    {OldRomance, OldRomanceTwin, HerAgain, HerShoutFound, UpBare, UpLoved, Opposite}

MaxCandidates == 2

RECURSIVE ListsUpTo(_, _)
ListsUpTo(pool, n) ==
    IF n = 0 THEN {<< >>}
    ELSE LET shorter == ListsUpTo(pool, n - 1)
         IN shorter \cup {Append(s, x) : s \in shorter, x \in pool}

\* request bodies: unreadable, without a user name, with an empty one, with one
RequestBodies ==
    {[kind |-> "invalid"],
     [kind |-> "json", data |-> [limit |-> 5]],
     [kind |-> "json", data |-> [username |-> << >>]],
     [kind |-> "json", data |-> [username |-> <<"a", "n", "n">>]]}

AnnProfile == [username |-> <<"a", "n", "n">>, display_name |-> "Ann", films_watched |-> "2"]

\* ratings as the scraper records them: loved, not loved, and unrated
ScrapedRatingPool ==
    {ScrapedRating,
     [movie_title |-> <<"U", "p">>, movie_slug |-> <<"u", "p">>, rating |-> RInt(3)],
     [movie_title |-> <<"U", "p">>, movie_slug |-> <<"u", "p">>, rating |-> None]}

MaxRatings == 2

\* what the scraper can be and return during one request
HandlerWorlds ==
    [scraper_available : BOOLEAN,
     profile : {None, AnnProfile},
     ratings : ListsUpTo(ScrapedRatingPool, MaxRatings)]

CandidateLists ==
    ListsUpTo(CandidatePool, MaxCandidates)
    \cup {<<HerShoutFound, OldRomance, HerAgain, OldRomanceTwin, UpBare>>,
          <<UpLoved, UpBare, Opposite, HerAgain, HerShoutFound>>}

ScoringLovedLists == {<< >>, <<Up, Her, HerShout>>}

DiversityFactors == {RInt(0), Rat(3, 10), Rat(1, 2), RInt(1)}

RequestedNumbers == {0, 1, 2, 10}

(***************************************************************************)
(* Inputs of the two aggregations over a loved list: films carrying the    *)
(* categorical fields read by _analyze_taste_profile and the scores map    *)
(* read by _calculate_average_scores.                                      *)
(***************************************************************************)
Alien ==
    [title |-> <<"A", "l", "i", "e", "n">>, year |-> 1979, director |-> "Ridley Scott",
     genres |-> <<"Horror", "SciFi">>, themes |-> <<"isolation", "survival">>,
     cast |-> <<"Weaver", "Skerritt", "Hurt", "Holm">>, mood |-> "tense",
     dimensional_scores |-> [editing_tempo |-> RInt(3), shadow_ratio |-> RInt(6)]]

Brazil ==
    [title |-> <<"B", "r", "a", "z", "i", "l">>, year |-> 1985, director |-> "Terry Gilliam",
     genres |-> <<"SciFi", "Comedy">>, themes |-> <<"bureaucracy", "isolation">>,
     cast |-> <<"Pryce", "Holm", "De Niro">>, mood |-> "absurd",
     dimensional_scores |-> [editing_tempo |-> Rat(11, 2), beauty_priority |-> RInt(5)]]

\* no director known, no mood, no scores map
Clue ==
    [title |-> <<"C", "l", "u", "e">>, year |-> 1985, director |-> "N/A",
     genres |-> <<"Comedy", "Mystery">>, themes |-> <<"greed">>,
     cast |-> <<"Curry">>, mood |-> ""]

Dune ==
    [title |-> <<"D", "u", "n", "e">>, year |-> 2021, director |-> "Denis Villeneuve",
     genres |-> <<"SciFi", "Adventure", "Drama">>,
     themes |-> <<"destiny", "power", "survival">>,
     cast |-> <<"Chalamet", "Ferguson", "Isaac", "Zendaya">>, mood |-> "epic",
     dimensional_scores |-> [editing_tempo |-> RInt(2), shadow_ratio |-> Rat(5, 2),
                             made_up_dimension |-> RInt(7)]]

Emma ==
    [title |-> <<"E", "m", "m", "a">>, year |-> 1996, director |-> "Douglas McGrath",
     genres |-> <<"Romance", "Comedy">>, themes |-> <<"class">>,
     cast |-> <<"Paltrow">>, mood |-> "light",
     dimensional_scores |-> [beauty_priority |-> RInt(6)]]

Fargo ==
    [title |-> <<"F", "a", "r", "g", "o">>, year |-> 1996, director |-> "Joel Coen",
     genres |-> <<"Crime", "Thriller">>, themes |-> <<"greed", "chance">>,
     cast |-> <<"McDormand", "Macy", "Buscemi", "Stormare">>, mood |-> "bleak",
     dimensional_scores |-> [editing_tempo |-> RInt(4)]]

\* a film with a title only
Gilda == [title |-> <<"G", "i", "l", "d", "a">>]

Heat ==
    [title |-> <<"H", "e", "a", "t">>, year |-> 2003, director |-> "Michael Mann",
     genres |-> <<"Crime", "Drama">>, themes |-> <<"obsession">>,
     cast |-> <<"Pacino", "De Niro">>, mood |-> "tense"]

LovedFilmPool == {Alien, Brazil, Clue, Dune, Emma, Fargo, Gilda}

MaxLoved == 2

\* the short lists, and one list long enough to overflow every top list
LovedFilmLists ==
    ListsUpTo(LovedFilmPool, MaxLoved)
    \cup {<<Alien, Brazil, Dune, Emma, Fargo, Heat>>}

(***************************************************************************)
(* State.  The fingerprint generator: the loved films collected so far and *)
(* the fingerprint returned.  The recommendation engine: the vector store, *)
(* the arguments of the generate_recommendations call, the answers its     *)
(* similarity searches gave, and the result returned (<< >> before the     *)
(* call, <<result>> after it).                                             *)
(***************************************************************************)
VARIABLES loved_movies_scores, fingerprint, returned,
          movies_collection, user_loved_movies, user_rated_movies,
          num_recommendations, diversity_factor, similar_movies, result, raised,
          store_failing, film_vector, user_taste_vector, similarity, film_match,
          candidates, loved_movies, taste_profile, scoring_diversity_factor,
          scored_candidates, requested_recommendations, recommendations,
          loved_films, average_scores, analyzed_profile,
          analyzer_collection, call_log, similar_query, similar_found,
          analysis, lookup_call, lookup_result,
          http_request, responses

fingerprint_vars == <<loved_movies_scores, fingerprint, returned>>

engine_vars == <<movies_collection, user_loved_movies, user_rated_movies,
                 num_recommendations, diversity_factor, similar_movies, result,
                 raised, store_failing>>

match_vars == <<film_vector, user_taste_vector, similarity, film_match>>

scoring_vars == <<candidates, loved_movies, taste_profile, scoring_diversity_factor,
                  scored_candidates, requested_recommendations, recommendations>>

aggregation_vars == <<loved_films, average_scores, analyzed_profile>>

\* the analyzer used on its own: its store, the calls of
\* analyze_and_store_movie made so far, and the last similarity search
analyzer_vars == <<analyzer_collection, call_log, similar_query, similar_found>>

\* the last call of analyze_movie_with_ai: the reply it got and what it returned
analysis_vars == <<analysis>>

\* the last metadata lookup: the service asked, the title and year, what the
\* web sources answered, and the record returned
lookup_vars == <<lookup_call, lookup_result>>

\* the last request to /api/analyze_profile and the responses sent for it
handler_vars == <<http_request, responses>>

service_vars == <<analyzer_vars, analysis_vars, lookup_vars, handler_vars>>

vars == <<fingerprint_vars, engine_vars, match_vars, scoring_vars, aggregation_vars,
          service_vars>>

core_vars == <<fingerprint_vars, engine_vars, match_vars, scoring_vars, aggregation_vars>>

\* what a component leaves alone: the state of the other components
outside_fingerprint == <<engine_vars, match_vars, scoring_vars, aggregation_vars, service_vars>>

outside_engine == <<fingerprint_vars, match_vars, scoring_vars, aggregation_vars, service_vars>>

outside_match == <<fingerprint_vars, engine_vars, scoring_vars, aggregation_vars, service_vars>>

outside_scoring == <<fingerprint_vars, engine_vars, match_vars, aggregation_vars, service_vars>>

outside_aggregation == <<fingerprint_vars, engine_vars, match_vars, scoring_vars, service_vars>>

outside_analyzer == <<core_vars, analysis_vars, lookup_vars, handler_vars>>

outside_analysis == <<engine_vars, match_vars, scoring_vars, aggregation_vars, analyzer_vars,
                      lookup_vars, handler_vars>>

outside_lookup == <<core_vars, analyzer_vars, analysis_vars, handler_vars>>

outside_handler == <<core_vars, analyzer_vars, analysis_vars, lookup_vars>>

NoFingerprint ==
    [dimensional_scores |-> << >>,
     strong_preferences |-> [low_end_preferences |-> << >>,
                             high_end_preferences |-> << >>],
     narrative |-> << >>,
     taste_vector |-> << >>,
     vector_dimension |-> 0]

\* no fingerprint call has been made
FingerprintIdle ==
    /\ loved_movies_scores = << >>
    /\ fingerprint = NoFingerprint
    /\ returned = FALSE

\* the store is empty and no recommendation call has been made
EngineIdle ==
    /\ movies_collection = EmptyCollection
    /\ user_loved_movies = << >>
    /\ user_rated_movies = None
    /\ num_recommendations = 0
    /\ diversity_factor = RInt(0)
    /\ similar_movies = << >>
    /\ result = << >>
    /\ raised = FALSE
    /\ store_failing = {}

\* no vectors are being compared
MatchIdle ==
    /\ film_vector = << >>
    /\ user_taste_vector = << >>
    /\ similarity = None
    /\ film_match = None

\* no candidates are being scored
ScoringIdle ==
    /\ candidates = << >>
    /\ loved_movies = << >>
    /\ taste_profile = None
    /\ scoring_diversity_factor = RInt(0)
    /\ scored_candidates = None
    /\ requested_recommendations = 0
    /\ recommendations = None

\* no loved list is being aggregated
AggregationIdle ==
    /\ loved_films = << >>
    /\ average_scores = None
    /\ analyzed_profile = None

\* the analyzer's own store is empty and it has not been called
AnalyzerIdle ==
    /\ analyzer_collection = EmptyCollection
    /\ call_log = << >>
    /\ similar_query = None
    /\ similar_found = None

\* analyze_movie_with_ai has not been called
AnalysisIdle == analysis = None

\* no film has been looked up
LookupIdle == lookup_call = None /\ lookup_result = None

\* no request has come in
HandlerIdle == http_request = None /\ responses = << >>

ServicesIdle == AnalyzerIdle /\ AnalysisIdle /\ LookupIdle /\ HandlerIdle

CoreIdle ==
    /\ FingerprintIdle
    /\ EngineIdle
    /\ MatchIdle
    /\ ScoringIdle
    /\ AggregationIdle

Init ==
    /\ FingerprintIdle
    /\ EngineIdle
    /\ MatchIdle
    /\ ScoringIdle
    /\ AggregationIdle
    /\ ServicesIdle

\* the caller collects one more loved film
AddLovedMovie(movie) ==
    /\ ~returned
    /\ Len(loved_movies_scores) < MaxMovies
    /\ loved_movies_scores' = Append(loved_movies_scores, movie)
    /\ UNCHANGED <<fingerprint, returned, outside_fingerprint>>

GenerateTasteFingerprint ==
    /\ ~returned
    /\ fingerprint' = generate_taste_fingerprint(loved_movies_scores)
    /\ returned' = TRUE
    /\ UNCHANGED <<loved_movies_scores, outside_fingerprint>>

Next ==
    \/ \E movie \in MoviePool : AddLovedMovie(movie)
    \/ GenerateTasteFingerprint

Spec == Init /\ [][Next]_vars

\* AIMovieAnalyzer.analyze_and_store_movie called on its own (the analysis
\* scripts fill the store film by film)
AnalyzeAndStoreMovie(movie_data, outcome) ==
    /\ result = << >>
    /\ ~raised
    /\ Cardinality(DOMAIN movies_collection) < MaxStored
    /\ movies_collection' = analyze_and_store_movie(movies_collection, movie_data, outcome)
    /\ UNCHANGED <<outside_engine, user_loved_movies, user_rated_movies,
                   num_recommendations, diversity_factor, similar_movies, result,
                   raised, store_failing>>

\* RecommendationEngine.generate_recommendations
GenerateRecommendations(loved, request) ==
    /\ result = << >>
    /\ ~raised
    /\ \E outcomes \in OutcomesFrom(movies_collection, loved, 1) :
          LET collection == ensure_movies_analyzed(movies_collection, loved, outcomes)
          IN \E similar \in {Searches(collection, loved, tiebreak) :
                                tiebreak \in Orderings(DOMAIN collection)} :
                /\ movies_collection' = collection
                /\ similar_movies' = similar
                /\ result' = <<generate_recommendations(
                                    loved, request.user_rated_movies,
                                    request.num_recommendations,
                                    request.diversity_factor, similar)>>
    /\ user_loved_movies' = loved
    /\ user_rated_movies' = request.user_rated_movies
    /\ num_recommendations' = request.num_recommendations
    /\ diversity_factor' = request.diversity_factor
    /\ UNCHANGED <<outside_engine, raised, store_failing>>

\* RecommendationEngine.generate_recommendations while the operations of the
\* vector store named in failing raise: an exception that leaves the call
\* leaves no result
GenerateRecommendationsStoreFailing(loved, request, failing) ==
    /\ result = << >>
    /\ ~raised
    /\ \E outcomes \in OutcomesFrom(movies_collection, loved, 1) :
          LET ensured == ensure_movies_analyzed_store_failing(
                             movies_collection, loved, outcomes, failing)
              collection == ensured.collection
          IN /\ movies_collection' = collection
             /\ raised' = ensured.raised
             /\ IF ensured.raised
                THEN UNCHANGED <<similar_movies, result>>
                ELSE \E similar \in {SearchesStoreFailing(collection, loved, tiebreak, failing) :
                                        tiebreak \in Orderings(DOMAIN collection)} :
                        /\ similar_movies' = similar
                        /\ result' = <<generate_recommendations(
                                            loved, request.user_rated_movies,
                                            request.num_recommendations,
                                            request.diversity_factor, similar)>>
    /\ user_loved_movies' = loved
    /\ user_rated_movies' = request.user_rated_movies
    /\ num_recommendations' = request.num_recommendations
    /\ diversity_factor' = request.diversity_factor
    /\ store_failing' = failing
    /\ UNCHANGED outside_engine

NextEngine ==
    \/ \E movie_data \in FilmPool :
          \E outcome \in Outcomes(movie_data) : AnalyzeAndStoreMovie(movie_data, outcome)
    \/ \E loved \in LovedLists, request \in Requests :
          GenerateRecommendations(loved, request)
    \/ \E loved \in LovedLists, request \in Requests, failing \in StoreFailures :
          GenerateRecommendationsStoreFailing(loved, request, failing)

SpecEngine == Init /\ [][NextEngine]_vars

\* handler.do_POST for one request to /api/analyze_profile
DoPost(body, world) ==
    /\ http_request = None
    /\ http_request' = <<[body |-> body, world |-> world]>>
    /\ responses' = do_POST([body |-> body], world)
    /\ UNCHANGED outside_handler

NextHandler == \E body \in RequestBodies, world \in HandlerWorlds : DoPost(body, world)

SpecHandler == Init /\ [][NextHandler]_vars

\* MultiAPIMovieService.get_movie_data
GetMovieData(title, year, sources) ==
    /\ lookup_call = None
    /\ lookup_call' = <<[service |-> "MultiAPIMovieService", title |-> title,
                         year |-> year, sources |-> sources]>>
    /\ lookup_result' = <<get_movie_data(title, year, sources)>>
    /\ UNCHANGED outside_lookup

\* AlternativeMovieAPI.search_movie_by_title
SearchMovieByTitle(title, year, sources) ==
    /\ lookup_call = None
    /\ lookup_call' = <<[service |-> "AlternativeMovieAPI", title |-> title,
                         year |-> year, sources |-> sources]>>
    /\ lookup_result' = <<search_movie_by_title(title, year, sources)>>
    /\ UNCHANGED outside_lookup

NextLookup ==
    \/ \E title \in LookupTitles, year \in LookupYears, sources \in MultiAPISources :
          GetMovieData(title, year, sources)
    \/ \E title \in LookupTitles, year \in LookupYears, sources \in AlternativeSources :
          SearchMovieByTitle(title, year, sources)

SpecLookup == Init /\ [][NextLookup]_vars

\* AIMovieAnalyzer.analyze_movie_with_ai
AnalyzeMovieWithAI(movie_data, reply) ==
    /\ ~returned
    /\ analysis' = <<[reply |-> reply,
                      analysis |-> analyze_movie_with_ai(movie_data, ParsedReply(reply))]>>
    /\ UNCHANGED <<fingerprint_vars, outside_analysis>>

\* the caller collects the analysis as a loved film's scores
AddAnalyzedMovie ==
    /\ analysis # None
    /\ AddLovedMovie(analysis[1].analysis)

\* films are analyzed and collected, then the fingerprint is generated
NextAnalysis ==
    \/ \E movie_data \in {Her}, reply \in Replies : AnalyzeMovieWithAI(movie_data, reply)
    \/ AddAnalyzedMovie
    \/ \E movie \in CollectedPool : AddLovedMovie(movie)
    \/ GenerateTasteFingerprint

SpecAnalysis == Init /\ [][NextAnalysis]_vars

\* AIMovieAnalyzer.analyze_and_store_movie
AnalyzeAndStoreMovieCall(movie_data, outcome, duplicate_raises) ==
    /\ similar_found = None
    /\ Len(call_log) < MaxCalls
    /\ LET call == analyze_and_store_movie_call(analyzer_collection, movie_data,
                                                outcome, duplicate_raises)
       IN /\ analyzer_collection' = call.collection
          /\ call_log' = Append(call_log,
                                [movie_data |-> movie_data,
                                 succeeding |-> outcome.ai # << >>
                                                /\ outcome.embedding # << >>,
                                 returned |-> call.returned,
                                 analyzed |-> call.analyzed,
                                 inserted |-> call.inserted])
    /\ UNCHANGED <<similar_query, similar_found, outside_analyzer>>

\* AIMovieAnalyzer.find_similar_movies
FindSimilarMovies(movie_id, limit, tiebreak, failing) ==
    /\ similar_found = None
    /\ similar_query' = <<[movie_id |-> movie_id, limit |-> limit, failing |-> failing]>>
    /\ similar_found' = <<find_similar_movies_store_failing(
                              analyzer_collection, movie_id, limit, tiebreak, failing)>>
    /\ UNCHANGED <<analyzer_collection, call_log, outside_analyzer>>

NextAnalyzer ==
    \/ \E movie_data \in AnalyzerFilms, duplicate_raises \in BOOLEAN :
          \E outcome \in AnalyzerOutcomes(movie_data) :
             AnalyzeAndStoreMovieCall(movie_data, outcome, duplicate_raises)
    \/ \E movie_id \in QueryIds, limit \in Limits, failing \in SearchFailures :
          \E tiebreak \in Orderings(DOMAIN analyzer_collection) :
             FindSimilarMovies(movie_id, limit, tiebreak, failing)

SpecAnalyzer == Init /\ [][NextAnalyzer]_vars

\* a film vector and a user's taste vector are at hand
InitMatch ==
    /\ FingerprintIdle
    /\ EngineIdle
    /\ ScoringIdle
    /\ AggregationIdle
    /\ ServicesIdle
    /\ film_vector \in VectorPool
    /\ user_taste_vector \in VectorPool
    /\ similarity = None
    /\ film_match = None

\* TasteFingerprintGenerator.calculate_similarity
CalculateSimilarity ==
    /\ similarity = None
    /\ similarity' = <<calculate_similarity(film_vector, user_taste_vector)>>
    /\ UNCHANGED <<film_vector, user_taste_vector, film_match, outside_match>>

\* TasteFingerprintGenerator.match_film_to_taste
MatchFilmToTaste ==
    /\ film_match = None
    /\ film_match' = <<match_film_to_taste(film_vector, user_taste_vector)>>
    /\ UNCHANGED <<film_vector, user_taste_vector, similarity, outside_match>>

NextMatch ==
    \/ CalculateSimilarity
    \/ MatchFilmToTaste

SpecMatch == InitMatch /\ [][NextMatch]_vars

\* generate_recommendations has gathered the candidates and the taste
\* profile of the loved films
InitScoring ==
    /\ FingerprintIdle
    /\ EngineIdle
    /\ MatchIdle
    /\ AggregationIdle
    /\ ServicesIdle
    /\ candidates \in CandidateLists
    /\ loved_movies \in ScoringLovedLists
    /\ taste_profile = analyze_taste_profile(loved_movies)
    /\ scoring_diversity_factor \in DiversityFactors
    /\ scored_candidates = None
    /\ requested_recommendations = 0
    /\ recommendations = None

\* RecommendationEngine._score_candidates
ScoreCandidates ==
    /\ scored_candidates = None
    /\ candidates' = candidates_after_scoring(candidates, taste_profile,
                                               scoring_diversity_factor)
    /\ scored_candidates' = <<score_candidates(candidates, taste_profile, loved_movies,
                                                scoring_diversity_factor)>>
    /\ UNCHANGED <<loved_movies, taste_profile, scoring_diversity_factor,
                   requested_recommendations, recommendations, outside_scoring>>

\* RecommendationEngine._select_top_recommendations
SelectTopRecommendations(num) ==
    /\ scored_candidates # None
    /\ recommendations = None
    /\ requested_recommendations' = num
    /\ recommendations' = <<select_top_recommendations(scored_candidates[1], num)>>
    /\ UNCHANGED <<candidates, loved_movies, taste_profile, scoring_diversity_factor,
                   scored_candidates, outside_scoring>>

NextScoring ==
    \/ ScoreCandidates
    \/ \E num \in RequestedNumbers : SelectTopRecommendations(num)

SpecScoring == InitScoring /\ [][NextScoring]_vars

\* a loved list is at hand
InitAggregation ==
    /\ FingerprintIdle
    /\ EngineIdle
    /\ MatchIdle
    /\ ScoringIdle
    /\ ServicesIdle
    /\ loved_films \in LovedFilmLists
    /\ average_scores = None
    /\ analyzed_profile = None

\* TasteFingerprintGenerator._calculate_average_scores
CalculateAverageScores ==
    /\ average_scores = None
    /\ average_scores' = <<calculate_average_scores(loved_films)>>
    /\ UNCHANGED <<loved_films, analyzed_profile, outside_aggregation>>

\* RecommendationEngine._analyze_taste_profile
AnalyzeTasteProfile ==
    /\ analyzed_profile = None
    /\ analyzed_profile' = <<analyze_taste_profile(loved_films)>>
    /\ UNCHANGED <<loved_films, average_scores, outside_aggregation>>

NextAggregation ==
    \/ CalculateAverageScores
    \/ AnalyzeTasteProfile

SpecAggregation == InitAggregation /\ [][NextAggregation]_vars

(***************************************************************************)
(* Properties of the fingerprint generator.                                *)
(***************************************************************************)
DimIndex(dim) == CHOOSE k \in 1..Len(dimension_names) : dimension_names[k] = dim

\* the loved films that supply a non-null score for dim
Suppliers(dim) ==
    {i \in 1..Len(loved_movies_scores) :
        LET m == loved_movies_scores[i]
        IN /\ "dimensional_scores" \in DOMAIN m
           /\ dim \in DOMAIN m.dimensional_scores
           /\ m.dimensional_scores[dim] # None}

RECURSIVE SuppliedSum(_, _)
SuppliedSum(dim, S) ==
    IF S = {} THEN RInt(0)
    ELSE LET i == CHOOSE x \in S : TRUE
         IN RAdd(loved_movies_scores[i].dimensional_scores[dim],
                 SuppliedSum(dim, S \ {i}))

\* the aggregate the returned fingerprint holds for dim (None when it has none)
ScoreOf(dim) == DictGet(fingerprint.dimensional_scores, dim, None)

\* C2: for every registered dimension that at least one loved film supplies
\* with a non-null score, the aggregate is the sum of the supplied scores
\* divided by the number of films that supplied it (films that do not supply
\* the dimension are not in the denominator).
C2_MeanOfSuppliers ==
    returned =>
        \A dim \in DimSet :
            Suppliers(dim) # {} =>
                ScoreOf(dim) = RDivInt(SuppliedSum(dim, Suppliers(dim)),
                                       Cardinality(Suppliers(dim)))

\* two loved films, a dimension that only one of them supplies and a
\* dimension both supply with different scores
C2_Witness ==
    /\ returned
    /\ Len(loved_movies_scores) = 2
    /\ \E dim \in DimSet : Cardinality(Suppliers(dim)) = 1
    /\ \E dim \in DimSet :
          /\ Cardinality(Suppliers(dim)) = 2
          /\ loved_movies_scores[1].dimensional_scores[dim]
                # loved_movies_scores[2].dimensional_scores[dim]

\* C3: a registered dimension that no loved film supplies aggregates to
\* exactly 4.0, and the result has one entry for each of the 62 registered
\* dimensions and for no other key.
C3_NeutralDefaultAndKeys ==
    returned =>
        /\ \A dim \in DimSet : Suppliers(dim) = {} => ScoreOf(dim) = RInt(4)
        /\ Len(fingerprint.dimensional_scores) = 62
        /\ Keys(fingerprint.dimensional_scores) = DimSet
        /\ Cardinality(DimSet) = 62

\* a film supplies an unregistered key and a null score, some registered
\* dimension is supplied and some is supplied by nobody
C3_Witness ==
    /\ returned
    /\ \E i \in 1..Len(loved_movies_scores) :
          /\ "dimensional_scores" \in DOMAIN loved_movies_scores[i]
          /\ \E k \in DOMAIN loved_movies_scores[i].dimensional_scores :
                k \notin DimSet
          /\ \E k \in DOMAIN loved_movies_scores[i].dimensional_scores :
                loved_movies_scores[i].dimensional_scores[k] = None
    /\ \E dim \in DimSet : Suppliers(dim) # {}
    /\ \E dim \in DimSet : Suppliers(dim) = {}

\* C4: the fingerprint of an empty list of loved films is returned (no
\* error) with every one of the 62 dimensional scores 4.0, every taste_vector
\* entry 0.5, both strong-preference lists empty and the narrative "".
C4_EmptyInputNeutral ==
    (returned /\ loved_movies_scores = << >>) =>
        /\ Len(fingerprint.dimensional_scores) = 62
        /\ \A i \in 1..Len(fingerprint.dimensional_scores) :
              fingerprint.dimensional_scores[i] = <<dimension_names[i], RInt(4)>>
        /\ Len(fingerprint.taste_vector) = 62
        /\ \A i \in 1..Len(fingerprint.taste_vector) :
              fingerprint.taste_vector[i] = Rat(1, 2)
        /\ fingerprint.strong_preferences.low_end_preferences = << >>
        /\ fingerprint.strong_preferences.high_end_preferences = << >>
        /\ fingerprint.narrative = << >>

C4_Witness == returned /\ loved_movies_scores = << >>

\* every score a loved film supplies lies in [1, 7]
SuppliedScoresInRange ==
    \A i \in 1..Len(loved_movies_scores) :
        LET m == loved_movies_scores[i]
        IN "dimensional_scores" \in DOMAIN m =>
              \A k \in DOMAIN m.dimensional_scores :
                  m.dimensional_scores[k] # None =>
                      /\ RLe(RInt(1), m.dimensional_scores[k])
                      /\ RLe(m.dimensional_scores[k], RInt(7))

C6_Normalization ==
    returned =>
        /\ \A i \in 1..62 :
              LET s == fingerprint.dimensional_scores[i][2]
                  e == fingerprint.taste_vector[i]
              IN /\ e = Rat(s[1] - s[2], 6 * s[2])
                 /\ (s = RInt(1) => e = RInt(0))
                 /\ (s = RInt(4) => e = Rat(1, 2))
                 /\ (s = RInt(7) => e = RInt(1))
        /\ \A i, j \in 1..62 :
              RLt(fingerprint.dimensional_scores[i][2],
                  fingerprint.dimensional_scores[j][2])
                 => RLt(fingerprint.taste_vector[i], fingerprint.taste_vector[j])
        /\ loved_movies_scores = <<Moonlight>> =>
              /\ \A dim \in DimSet :
                    ScoreOf(dim) = IF dim = "temporal_structure"
                                   THEN RInt(6) ELSE RInt(2)
              /\ fingerprint.taste_vector[DimIndex("temporal_structure")]
                    = Rat(5, 6)

C6_Witness == returned /\ loved_movies_scores = <<Moonlight>>

low_end == fingerprint.strong_preferences.low_end_preferences

high_end == fingerprint.strong_preferences.high_end_preferences

ItemDims(items) == {items[i][1] : i \in 1..Len(items)}

\* C7: the low and high strong-preference lists share no dimension, each has
\* at most 10 entries, every low entry has score <= 2.5 and every high entry
\* score >= 5.5, and a dimension with 2.5 < score < 5.5 is in neither.
C7_StrongListsDisjointCapped ==
    returned =>
        /\ ItemDims(low_end) \cap ItemDims(high_end) = {}
        /\ Len(low_end) <= 10
        /\ Len(high_end) <= 10
        /\ \A i \in 1..Len(low_end) :
              /\ low_end[i][2] = ScoreOf(low_end[i][1])
              /\ RLe(low_end[i][2], Rat(5, 2))
        /\ \A i \in 1..Len(high_end) :
              /\ high_end[i][2] = ScoreOf(high_end[i][1])
              /\ RLe(Rat(11, 2), high_end[i][2])
        /\ \A dim \in DimSet :
              (RLt(Rat(5, 2), ScoreOf(dim)) /\ RLt(ScoreOf(dim), Rat(11, 2)))
                 => dim \notin ItemDims(low_end) \cup ItemDims(high_end)

\* both lists non-empty, scores exactly on both thresholds listed, and a
\* dimension strictly between the thresholds
C7_Witness ==
    /\ returned
    /\ \E i \in 1..Len(low_end) : low_end[i][2] = Rat(5, 2)
    /\ \E i \in 1..Len(high_end) : high_end[i][2] = Rat(11, 2)
    /\ \E dim \in DimSet :
          RLt(Rat(5, 2), ScoreOf(dim)) /\ RLt(ScoreOf(dim), Rat(11, 2))

QualifyLow == {dim \in DimSet : RLe(ScoreOf(dim), Rat(5, 2))}

QualifyHigh == {dim \in DimSet : RLe(Rat(11, 2), ScoreOf(dim))}

\* a is listed before b: more extreme, or as extreme and registered earlier
LowBefore(a, b) ==
    \/ RLt(ScoreOf(a), ScoreOf(b))
    \/ (ScoreOf(a) = ScoreOf(b) /\ DimIndex(a) < DimIndex(b))

HighBefore(a, b) ==
    \/ RLt(ScoreOf(b), ScoreOf(a))
    \/ (ScoreOf(a) = ScoreOf(b) /\ DimIndex(a) < DimIndex(b))

Min(a, b) == IF a < b THEN a ELSE b

\* C8: each strong-preference list is ordered most-extreme first (low by
\* ascending score, high by descending score), equal scores in dimension
\* registration order, and holds the min(10, number qualifying) most extreme
\* qualifying dimensions under that order.
C8_StrongListsOrdered ==
    returned =>
        /\ Len(low_end) = Min(10, Cardinality(QualifyLow))
        /\ Len(high_end) = Min(10, Cardinality(QualifyHigh))
        /\ ItemDims(low_end) \subseteq QualifyLow
        /\ ItemDims(high_end) \subseteq QualifyHigh
        /\ \A i, j \in 1..Len(low_end) :
              i < j => LowBefore(low_end[i][1], low_end[j][1])
        /\ \A i, j \in 1..Len(high_end) :
              i < j => HighBefore(high_end[i][1], high_end[j][1])
        /\ \A dim \in QualifyLow \ ItemDims(low_end) :
              \A i \in 1..Len(low_end) : LowBefore(low_end[i][1], dim)
        /\ \A dim \in QualifyHigh \ ItemDims(high_end) :
              \A i \in 1..Len(high_end) : HighBefore(high_end[i][1], dim)

\* more than 10 dimensions qualify for each list, each list holds two
\* different scores and a tie, and a dimension left out ties with the last
\* one kept
C8_Witness ==
    /\ returned
    /\ Cardinality(QualifyLow) > 10
    /\ Cardinality(QualifyHigh) > 10
    /\ Len(low_end) = 10 /\ Len(high_end) = 10
    /\ low_end[1][2] # low_end[10][2]
    /\ low_end[9][2] = low_end[10][2]
    /\ high_end[1][2] # high_end[10][2]
    /\ high_end[9][2] = high_end[10][2]
    /\ \E dim \in QualifyLow \ ItemDims(low_end) : ScoreOf(dim) = low_end[10][2]
    /\ \E dim \in QualifyHigh \ ItemDims(high_end) : ScoreOf(dim) = high_end[10][2]

\* the dimensions the renderer consults, in the order it consults them:
\* visual (1-4), rhythm (5-6), sound (7-9), quality profile (10-17),
\* story (18-21), emotional (22-25)
NarratedDims == <<
    "color_palette_psychology", "lighting_philosophy",
    "camera_movement_personality", "cinematic_realism_spectrum",
    "editing_tempo", "temporal_structure",
    "score_emotional_temperature", "silence_as_tool", "soundscape_texture",
    "craft_precision_vs_rawness", "art_cinema_vs_pop_cinema_mode",
    "narrative_ambition_level", "irony_sincerity_register",
    "emotional_weight_tolerance", "performance_style_preference",
    "script_construction_visibility", "auteur_intentionality_desire",
    "philosophical_stance", "ending_resolution", "moral_complexity",
    "relationship_to_class",
    "emotional_temperature", "vulnerability_exposure", "mystery_comfort",
    "beauty_priority" >>

NarratedSet == {NarratedDims[i] : i \in 1..Len(NarratedDims)}

\* the consulted dimensions for which no low-pole sentence is defined
HighOnlyDims ==
    {"temporal_structure", "silence_as_tool", "script_construction_visibility",
     "auteur_intentionality_desire", "ending_resolution", "moral_complexity",
     "relationship_to_class", "vulnerability_exposure", "mystery_comfort"}

\* first and last position in NarratedDims of each category, in narrative order
CategoryRanges == <<<<1, 4>>, <<5, 6>>, <<7, 9>>, <<10, 17>>, <<18, 21>>, <<22, 25>>>>

Emitted(dim, pole) ==
    \E i \in 1..Len(fingerprint.narrative) :
        fingerprint.narrative[i] = Sentence(dim, pole)

\* the dimensions of the quality profile gated at 2.5 / 5.5
WideGateDims == {"narrative_ambition_level", "emotional_weight_tolerance"}

\* C9 as stated: every consulted dimension emits its low-pole sentence (where
\* one is defined) exactly when its aggregate is < 3 and its high-pole
\* sentence exactly when it is > 5.
C9_AllGatesThreeFive ==
    returned =>
        \A dim \in NarratedSet :
            /\ Emitted(dim, "low")
                  <=> (dim \notin HighOnlyDims /\ RLt(ScoreOf(dim), RInt(3)))
            /\ Emitted(dim, "high") <=> RLt(RInt(5), ScoreOf(dim))

\* C9 (amended): every consulted dimension other than
\* narrative_ambition_level and emotional_weight_tolerance emits its low-pole
\* sentence (where one is defined) exactly when its aggregate is < 3 and its
\* high-pole sentence exactly when it is > 5; those two emit the low-pole
\* sentence exactly when the aggregate is < 2.5 and the high-pole sentence
\* exactly when it is > 5.5.  No other sentence is ever emitted.
C9_NarrativeGates ==
    returned =>
        /\ \A dim \in NarratedSet :
              LET lo == IF dim \in WideGateDims THEN Rat(5, 2) ELSE RInt(3)
                  hi == IF dim \in WideGateDims THEN Rat(11, 2) ELSE RInt(5)
              IN /\ Emitted(dim, "low")
                       <=> (dim \notin HighOnlyDims /\ RLt(ScoreOf(dim), lo))
                 /\ Emitted(dim, "high") <=> RLt(hi, ScoreOf(dim))
        /\ \A i \in 1..Len(fingerprint.narrative) :
              fingerprint.narrative[i] # Space =>
                  /\ fingerprint.narrative[i][1] \in NarratedSet
                  /\ fingerprint.narrative[i][2] \in {"low", "high"}

\* one wide-gated dimension sits in [2.5, 3) and the other in (5, 5.5], both
\* silent, while 3/5-gated dimensions speak at both poles and one sits
\* exactly on 3 or 5, silent
C9_Witness ==
    /\ returned
    /\ \E dim \in WideGateDims :
          /\ RLe(Rat(5, 2), ScoreOf(dim)) /\ RLt(ScoreOf(dim), RInt(3))
          /\ ~Emitted(dim, "low")
    /\ \E dim \in WideGateDims :
          /\ RLt(RInt(5), ScoreOf(dim)) /\ RLe(ScoreOf(dim), Rat(11, 2))
          /\ ~Emitted(dim, "high")
    /\ \E dim \in NarratedSet \ WideGateDims : Emitted(dim, "low")
    /\ \E dim \in NarratedSet \ WideGateDims : Emitted(dim, "high")
    /\ \E dim \in NarratedSet \ WideGateDims :
          ScoreOf(dim) \in {RInt(3), RInt(5)}

\* the sentences of the narrative, in order, without the separators
NarrativeSentences == SelectSeq(fingerprint.narrative, LAMBDA t : t # Space)

NarratedPos(dim) == CHOOSE k \in 1..Len(NarratedDims) : NarratedDims[k] = dim

\* the number of sentences the narrative holds for a category
CategoryCount(range) ==
    Cardinality({i \in 1..Len(NarrativeSentences) :
                    /\ NarratedPos(NarrativeSentences[i][1]) >= range[1]
                    /\ NarratedPos(NarrativeSentences[i][1]) <= range[2]})

\* sentences joined by single separators, in the fixed category order and
\* the fixed dimension order within each category
NarrativeWellFormed ==
    /\ \A i \in 1..Len(fingerprint.narrative) :
          (fingerprint.narrative[i] = Space) <=> (i % 2 = 0)
    /\ Len(fingerprint.narrative) > 0 => Len(fingerprint.narrative) % 2 = 1
    /\ \A i \in 1..Len(NarrativeSentences) :
          NarrativeSentences[i][1] \in NarratedSet
    /\ \A i, j \in 1..Len(NarrativeSentences) :
          i < j => NarratedPos(NarrativeSentences[i][1])
                      < NarratedPos(NarrativeSentences[j][1])

\* C10 as stated: the narrative is the non-empty category sub-narratives in
\* the order visual, rhythm, sound, quality profile, story, emotional, and
\* each category contributes between 0 and 5 sentences.
C10_AtMostFivePerCategory ==
    returned =>
        /\ NarrativeWellFormed
        /\ \A c \in 1..Len(CategoryRanges) : CategoryCount(CategoryRanges[c]) <= 5

\* C10 (amended): the narrative is the non-empty category sub-narratives
\* joined in the order visual, rhythm, sound, quality profile, story,
\* emotional, each category's sentences in its fixed dimension order, and
\* each category contributes between 0 and 8 sentences.
C10_NarrativeOrder ==
    returned =>
        /\ NarrativeWellFormed
        /\ \A c \in 1..Len(CategoryRanges) : CategoryCount(CategoryRanges[c]) <= 8

\* the quality profile speaks more than five sentences, with silent
\* categories before and after it
C10_Witness ==
    /\ returned
    /\ CategoryCount(CategoryRanges[4]) > 5
    /\ \E c \in 1..3 : CategoryCount(CategoryRanges[c]) = 0
    /\ \E c \in 1..3 : CategoryCount(CategoryRanges[c]) > 0
    /\ \E c \in 5..6 : CategoryCount(CategoryRanges[c]) > 0

(***************************************************************************)
(* Properties of the recommendation engine.                                *)
(***************************************************************************)
Returned == result # << >>

Recommendations == result[1].recommendations

TitleSlug(film) == create_slug(Get(film, "title", << >>))

\* the slugs of the films the call is to leave out: the rated films, or the
\* loved films when no rated list was passed
ExclusionSlugs ==
    {TitleSlug(film) :
        film \in ToSet(IF user_rated_movies = None
                       THEN user_loved_movies
                       ELSE user_rated_movies[1])}

\* every film the similarity searches of the call returned
SearchedPool == Flatten(similar_movies)

Compared == similarity # None

Matched == film_match # None

SquaredNorm(vector) == VDot(vector, vector)

RSign(a) == IF a[1] > 0 THEN 1 ELSE IF a[1] < 0 THEN 0 - 1 ELSE 0

\* C11: calculate_similarity returns 0 when either vector has zero norm,
\* returns 1 for a non-zero vector compared with itself, and otherwise
\* returns the dot product divided by the product of the two norms (stated
\* on squares: similarity^2 * |a|^2 * |b|^2 = dot^2, with the sign of dot).
C11_CosineSimilarity ==
    Compared =>
        LET s == similarity[1]
            dot == VDot(film_vector, user_taste_vector)
            sq1 == SquaredNorm(film_vector)
            sq2 == SquaredNorm(user_taste_vector)
        IN /\ (sq1 = RInt(0) \/ sq2 = RInt(0)) => s = RInt(0)
           /\ (sq1 # RInt(0) /\ sq2 # RInt(0)) =>
                 /\ RMul(RMul(s, s), RMul(sq1, sq2)) = RMul(dot, dot)
                 /\ RSign(s) = RSign(dot)
           /\ (film_vector = user_taste_vector /\ sq1 # RInt(0)) => s = RInt(1)

\* a non-zero vector has been compared with itself
C11_Witness ==
    /\ Compared
    /\ film_vector = user_taste_vector
    /\ SquaredNorm(film_vector) # RInt(0)
    /\ similarity[1] = RInt(1)

AlignmentOf(dim) ==
    RSub(RInt(1), RAbs(RSub(film_vector[DimIndex(dim)], user_taste_vector[DimIndex(dim)])))

MatchDims(matches) == {matches[i][1] : i \in 1..Len(matches)}

Phrases == {explanations[dim] : dim \in DOMAIN explanations}

\* C12: match_film_to_taste reports, for 62-entry vectors, the alignment
\* 1 - |film[i] - user[i]| of each dimension listed; the 10 dimensions of
\* highest alignment in descending order; the 5 dimensions of lowest
\* alignment; no dimension in both lists; and an explanation whose phrases
\* are exactly those of the dimensions among the 3 highest-aligned that
\* have a phrase.
C12_MatchLists ==
    Matched =>
        LET m == film_match[1]
            top == m.top_matching_dimensions
            bottom == m.bottom_matching_dimensions
            firstThree == {top[i][1] : i \in 1..3}
        IN /\ Len(top) = 10
           /\ Len(bottom) = 5
           /\ \A i \in 1..Len(top) : top[i][2] = AlignmentOf(top[i][1])
           /\ \A i \in 1..Len(bottom) : bottom[i][2] = AlignmentOf(bottom[i][1])
           /\ Cardinality(MatchDims(top)) = 10
           /\ Cardinality(MatchDims(bottom)) = 5
           /\ MatchDims(top) \subseteq DimSet
           /\ MatchDims(bottom) \subseteq DimSet
           /\ \A i, j \in 1..Len(top) : i < j => RLe(top[j][2], top[i][2])
           /\ \A dim \in DimSet \ MatchDims(top) :
                 \A i \in 1..Len(top) : RLe(AlignmentOf(dim), top[i][2])
           /\ \A dim \in DimSet \ MatchDims(bottom) :
                 \A i \in 1..Len(bottom) : RLe(bottom[i][2], AlignmentOf(dim))
           /\ MatchDims(top) \cap MatchDims(bottom) = {}
           /\ ToSet(m.match_explanation) \cap Phrases
                 = {explanations[dim] : dim \in firstThree \cap DOMAIN explanations}

\* a film has been matched whose best-aligned dimension has no phrase and
\* whose fourth or fifth best has one
C12_Witness ==
    /\ Matched
    /\ film_match[1].top_matching_dimensions[1][1] \notin DOMAIN explanations
    /\ \E i \in 4..5 :
          film_match[1].top_matching_dimensions[i][1] \in DOMAIN explanations
    /\ film_match[1].top_matching_dimensions[1][2] # film_match[1].bottom_matching_dimensions[1][2]

(***************************************************************************)
(* Properties of scoring and selection.                                    *)
(***************************************************************************)
Scored == scored_candidates # None

ScoredList == scored_candidates[1]

Selected == recommendations # None

Max(a, b) == IF a > b THEN a ELSE b

GenreMatch(candidate) ==
    LET genres == ToSet(Get(candidate, "genres", << >>))
    IN Rat(Cardinality(genres \cap ToSet(taste_profile.top_genres)),
           Max(Cardinality(genres), 1))

ThemeMatch(candidate) ==
    LET themes == ToSet(Get(candidate, "themes", << >>))
    IN Rat(Cardinality(themes \cap ToSet(taste_profile.top_themes)),
           Max(Cardinality(themes), 1))

DirectorMatch(candidate) ==
    \E i \in 1..Len(taste_profile.top_directors) :
        /\ "director" \in DOMAIN candidate
        /\ taste_profile.top_directors[i] = candidate.director

DirectorBonus(candidate) == IF DirectorMatch(candidate) THEN Rat(6, 5) ELSE RInt(1)

Recency(candidate) ==
    LET year == Get(candidate, "year", 2000)
    IN IF year >= 2020 THEN RInt(1) ELSE Rat(year, 2020)

BaseSimilarity(candidate) == Get(candidate, "base_similarity", RInt(0))

ExpectedScore(candidate, d) ==
    RAdd(RMul(RMul(BaseSimilarity(candidate), Rat(1, 2)),
              RSub(RInt(1), RMul(Rat(3, 10), d))),
    RAdd(RMul(Rat(1, 5), GenreMatch(candidate)),
    RAdd(RMul(Rat(3, 20), ThemeMatch(candidate)),
    RAdd(RMul(Rat(3, 20), RSub(DirectorBonus(candidate), RInt(1))),
         RMul(RMul(Rat(1, 10), d), Recency(candidate))))))

IsScenario(candidate) ==
    /\ BaseSimilarity(candidate) = Rat(4, 5)
    /\ GenreMatch(candidate) = RInt(1)
    /\ ThemeMatch(candidate) = RInt(0)
    /\ ~DirectorMatch(candidate)
    /\ Recency(candidate) = Rat(9, 10)
    /\ scoring_diversity_factor = Rat(3, 10)

Occurrences(s, x) == Cardinality({i \in 1..Len(s) : s[i] = x})

\* C13: _score_candidates gives every candidate the score
\* base_similarity*0.5*(1 - 0.3*d) + 0.2*genre_match + 0.15*theme_match
\* + 0.15*(director_bonus - 1.0) + 0.1*d*recency, in the list it returns and
\* in the candidates themselves, and 0.591 in the scenario of
\* base_similarity 0.8, genre_match 1.0, theme_match 0, no director match,
\* recency 0.9 and d = 0.3.
C13_ScoreFormula ==
    Scored =>
        /\ Len(ScoredList) = Len(candidates)
        /\ \A i \in 1..Len(candidates) :
              Occurrences(ScoredList, candidates[i]) = Occurrences(candidates, candidates[i])
        /\ \A i \in 1..Len(ScoredList) :
              /\ ScoredList[i].recommendation_score
                    = ExpectedScore(ScoredList[i], scoring_diversity_factor)
              /\ IsScenario(ScoredList[i]) =>
                    ScoredList[i].recommendation_score = Rat(591, 1000)

\* the candidate of the scenario has been scored
C13_Witness ==
    /\ Scored
    /\ \E i \in 1..Len(ScoredList) :
          /\ IsScenario(ScoredList[i])
          /\ ScoredList[i].recommendation_score = Rat(591, 1000)

ScoreWith(candidate, key, value, d) ==
    score_candidate((key :> value) @@ candidate, taste_profile, d).recommendation_score

\* what one unit of base_similarity adds to the score of the candidate
SimilarityCoefficient(candidate, d) ==
    RSub(ScoreWith(candidate, "base_similarity", RInt(1), d),
         ScoreWith(candidate, "base_similarity", RInt(0), d))

\* what one unit of recency adds to the score of the candidate
RecencyCoefficient(candidate, d) ==
    RSub(ScoreWith(candidate, "year", 2020, d),
         ScoreWith(candidate, "year", 0, d))

\* C14: for a fixed candidate and taste profile, a larger diversity_factor
\* in [0,1] gives a strictly smaller coefficient on base_similarity and a
\* strictly larger coefficient on recency.
C14_DiversityShiftsWeight ==
    Scored =>
        \A i \in 1..Len(candidates) :
            \A d \in DiversityFactors :
                RLt(scoring_diversity_factor, d) =>
                    /\ RLt(SimilarityCoefficient(candidates[i], d),
                           SimilarityCoefficient(candidates[i], scoring_diversity_factor))
                    /\ RLt(RecencyCoefficient(candidates[i], scoring_diversity_factor),
                           RecencyCoefficient(candidates[i], d))

\* candidates have been scored at d = 0.3, where base_similarity weighs
\* 0.455 and recency 0.03
C14_Witness ==
    /\ Scored
    /\ Len(candidates) > 0
    /\ scoring_diversity_factor = Rat(3, 10)
    /\ SimilarityCoefficient(candidates[1], scoring_diversity_factor) = Rat(91, 200)
    /\ RecencyCoefficient(candidates[1], scoring_diversity_factor) = Rat(3, 100)

InUnitInterval(r) == RLe(RInt(0), r) /\ RLe(r, RInt(1))

LovedEverything ==
    [top_genres |-> <<"Drama">>, top_themes |-> <<"general">>,
     top_directors |-> <<"Spike Jonze">>]

\* a candidate every component of whose score is 0
Blank == [title |-> << >>, year |-> 0]

\* what a component at its largest adds to the score at diversity d
Weight(key, value, d) ==
    RSub(score_candidate((key :> value) @@ Blank, LovedEverything, d).recommendation_score,
         score_candidate(Blank, LovedEverything, d).recommendation_score)

WeightSum(d) ==
    RAdd(Weight("base_similarity", RInt(1), d),
    RAdd(Weight("genres", <<"Drama">>, d),
    RAdd(Weight("themes", <<"general">>, d),
    RAdd(Weight("director", "Spike Jonze", d),
         Weight("year", 2020, d)))))

\* C15: for a candidate with base_similarity in [0,1] and a diversity_factor
\* in [0,1] the recommendation_score lies in [0,1], and at diversity_factor 0
\* the weights of the five components sum to at most 1.0.
C15_ScoreInUnitInterval ==
    Scored =>
        /\ \A i \in 1..Len(ScoredList) :
              (/\ InUnitInterval(BaseSimilarity(ScoredList[i]))
               /\ InUnitInterval(scoring_diversity_factor))
              => InUnitInterval(ScoredList[i].recommendation_score)
        /\ scoring_diversity_factor = RInt(0) => RLe(WeightSum(scoring_diversity_factor), RInt(1))

\* at diversity 0 a candidate with every component at its largest has been
\* scored 0.88, the sum of the weights
C15_Witness ==
    /\ Scored
    /\ scoring_diversity_factor = RInt(0)
    /\ WeightSum(scoring_diversity_factor) = Rat(22, 25)
    /\ \E i \in 1..Len(ScoredList) :
          /\ BaseSimilarity(ScoredList[i]) = RInt(1)
          /\ ScoredList[i].recommendation_score = Rat(22, 25)

RecommendationList == recommendations[1]

SlugOf(candidate) == create_slug(Get(candidate, "title", << >>))

FinalScore(candidate) == Get(candidate, "recommendation_score", RInt(0))

\* _select_top_recommendations passes over a candidate of type 'loved'
Eligible(candidate) == Get(candidate, "type", "") # "loved"

\* where the i-th candidate of s stands once s is sorted by descending score,
\* equal scores kept in the order of s
SortedPosition(s, i) ==
    1 + Cardinality({j \in 1..Len(s) :
            \/ RLt(FinalScore(s[i]), FinalScore(s[j]))
            \/ FinalScore(s[j]) = FinalScore(s[i]) /\ j < i})

SortedDescending(s) ==
    [k \in 1..Len(s) |-> s[CHOOSE i \in 1..Len(s) : SortedPosition(s, i) = k]]

\* the subsequence of s at the positions of the set keep
SubsequenceAt(s, keep) ==
    [k \in 1..Cardinality(keep) |->
        s[CHOOSE i \in keep : Cardinality({j \in keep : j <= i}) = k]]

\* the first candidate of each normalized title, in the order of s
FirstOfEachTitle(s) ==
    SubsequenceAt(s, {i \in 1..Len(s) :
                        \A j \in 1..(i - 1) : SlugOf(s[j]) # SlugOf(s[i])})

IsPrefix(a, b) ==
    /\ Len(a) <= Len(b)
    /\ \A i \in 1..Len(a) : a[i] = b[i]

NonIncreasing(s) ==
    \A i, j \in 1..Len(s) : i < j => RLe(FinalScore(s[j]), FinalScore(s[i]))

\* C16 as stated: the list returned is made of the first candidate of each
\* normalized title of the candidates sorted by descending score (equal
\* scores in discovery order), in non-increasing score order, and each entry
\* is the highest-scoring candidate of its title.
C16_FirstOfEachTitle ==
    Selected =>
        /\ ScoredList = SortedDescending(candidates)
        /\ IsPrefix(RecommendationList, FirstOfEachTitle(ScoredList))
        /\ NonIncreasing(RecommendationList)
        /\ \A i \in 1..Len(RecommendationList) :
              \A k \in 1..Len(candidates) :
                  SlugOf(candidates[k]) = SlugOf(RecommendationList[i])
                  => RLe(FinalScore(candidates[k]), FinalScore(RecommendationList[i]))

\* C16 amended: the list returned is a prefix of the first candidates of each
\* normalized title among the candidates whose type is not 'loved', taken
\* from the candidates sorted by descending score (equal scores in discovery
\* order); it is in non-increasing score order and each entry is the
\* highest-scoring candidate of its title among those not of type 'loved'.
C16_FirstOfEachTitleNotLoved ==
    Selected =>
        /\ ScoredList = SortedDescending(candidates)
        /\ IsPrefix(RecommendationList,
                    FirstOfEachTitle(SelectSeq(ScoredList, Eligible)))
        /\ NonIncreasing(RecommendationList)
        /\ \A i \in 1..Len(RecommendationList) :
              /\ Eligible(RecommendationList[i])
              /\ \A k \in 1..Len(candidates) :
                    (/\ Eligible(candidates[k])
                     /\ SlugOf(candidates[k]) = SlugOf(RecommendationList[i]))
                    => RLe(FinalScore(candidates[k]), FinalScore(RecommendationList[i]))

\* a candidate of type 'loved' outscores the entry returned for its title,
\* and a second candidate of a returned title has been dropped
C16_Witness ==
    /\ Selected
    /\ \E i \in 1..Len(RecommendationList) :
          \E k \in 1..Len(candidates) :
              /\ ~Eligible(candidates[k])
              /\ SlugOf(candidates[k]) = SlugOf(RecommendationList[i])
              /\ RLt(FinalScore(RecommendationList[i]), FinalScore(candidates[k]))
    /\ \E i \in 1..Len(RecommendationList) :
          \E k \in 1..Len(candidates) :
              /\ Eligible(candidates[k])
              /\ candidates[k] # RecommendationList[i]
              /\ SlugOf(candidates[k]) = SlugOf(RecommendationList[i])

\* the normalized titles of the candidates that selection does not pass over
AvailableTitles ==
    {SlugOf(ScoredList[i]) : i \in {k \in 1..Len(ScoredList) : Eligible(ScoredList[k])}}

\* C17: for every num_recommendations >= 0 the number of recommendations
\* returned is min(num_recommendations, number of distinct normalized titles
\* among the candidates not excluded), so never more than num_recommendations,
\* and all the available ones when fewer are available than requested.
C17_CountIsMinimum ==
    Selected =>
        /\ Len(RecommendationList)
             = Min(requested_recommendations, Cardinality(AvailableTitles))
        /\ Len(RecommendationList) <= requested_recommendations

(***************************************************************************)
(* Properties of the aggregations over a loved list.                       *)
(***************************************************************************)
Averaged == average_scores # None

Profiled == analyzed_profile # None

Profile == analyzed_profile[1]

\* what each film of a list contributes to a count, film after film
GenreItems(films) ==
    Flatten([i \in 1..Len(films) |-> Get(films[i], "genres", << >>)])

ThemeItems(films) ==
    Flatten([i \in 1..Len(films) |-> Get(films[i], "themes", << >>)])

DirectorItems(films) ==
    Flatten([i \in 1..Len(films) |->
                IF Get(films[i], "director", "") \in {"", "N/A"}
                THEN << >> ELSE <<films[i].director>>])

\* the first three members of each cast
ActorItems(films) ==
    Flatten([i \in 1..Len(films) |->
                LET cast == Get(films[i], "cast", << >>)
                IN SubSeq(cast, 1, Min(3, Len(cast)))])

DecadeItems(films) ==
    Flatten([i \in 1..Len(films) |->
                IF Get(films[i], "year", 0) = 0 THEN << >>
                ELSE <<<<films[i].year - (films[i].year % 10), "s">>>>])

MoodItems(films) ==
    Flatten([i \in 1..Len(films) |->
                IF Get(films[i], "mood", "") = "" THEN << >> ELSE <<films[i].mood>>])

FirstSeen(items, x) == CHOOSE i \in 1..Len(items) : items[i] = x /\ \A j \in 1..(i - 1) : items[j] # x

\* x comes before y in a list by descending count, equal counts by first
\* appearance
RanksBefore(items, x, y) ==
    \/ Occurrences(items, x) > Occurrences(items, y)
    \/ /\ Occurrences(items, x) = Occurrences(items, y)
       /\ FirstSeen(items, x) < FirstSeen(items, y)

\* top holds the cap most frequent of the items, in that order
IsTopList(top, items, cap) ==
    /\ Len(top) = Min(cap, Cardinality(ToSet(items)))
    /\ ToSet(top) \subseteq ToSet(items)
    /\ \A i, j \in 1..Len(top) : i < j => RanksBefore(items, top[i], top[j])
    /\ \A x \in ToSet(items) \ ToSet(top) :
          \A i \in 1..Len(top) : RanksBefore(items, top[i], x)

\* C18: _analyze_taste_profile returns top_genres, top_themes, top_directors
\* and top_actors of at most 5 entries and top_decades and top_moods of at
\* most 3, each by descending count with equal counts in order of first
\* appearance, actors counted from the first three cast members of each
\* film, and total_movies the length of the list.
C18_TopLists ==
    Profiled =>
        /\ IsTopList(Profile.top_genres, GenreItems(loved_films), 5)
        /\ IsTopList(Profile.top_themes, ThemeItems(loved_films), 5)
        /\ IsTopList(Profile.top_directors, DirectorItems(loved_films), 5)
        /\ IsTopList(Profile.top_actors, ActorItems(loved_films), 5)
        /\ IsTopList(Profile.top_decades, DecadeItems(loved_films), 3)
        /\ IsTopList(Profile.top_moods, MoodItems(loved_films), 3)
        /\ Profile.total_movies = Len(loved_films)

\* a profile whose six top lists are all cut, with equal counts among the
\* genres kept and a fourth cast member left uncounted
C18_Witness ==
    /\ Profiled
    /\ Cardinality(ToSet(GenreItems(loved_films))) > 5
    /\ Cardinality(ToSet(ThemeItems(loved_films))) > 5
    /\ Cardinality(ToSet(DirectorItems(loved_films))) > 5
    /\ Cardinality(ToSet(ActorItems(loved_films))) > 5
    /\ Cardinality(ToSet(DecadeItems(loved_films))) > 3
    /\ Cardinality(ToSet(MoodItems(loved_films))) > 3
    /\ Len(Profile.top_genres) = 5
    /\ Len(Profile.top_decades) = 3
    /\ \E i \in 1..4 :
          Occurrences(GenreItems(loved_films), Profile.top_genres[i])
            = Occurrences(GenreItems(loved_films), Profile.top_genres[i + 1])
    /\ \E i \in 1..Len(loved_films) :
          /\ Len(Get(loved_films[i], "cast", << >>)) > 3
          /\ loved_films[i].cast[4] \notin ToSet(ActorItems(loved_films))

\* C19: _analyze_taste_profile of an empty list returns a profile with every
\* top list empty, an empty genre_distribution, total_movies 0 and
\* average_year 0.
C19_EmptyProfile ==
    (Profiled /\ loved_films = << >>) =>
        /\ Profile.top_genres = << >>
        /\ Profile.top_themes = << >>
        /\ Profile.top_directors = << >>
        /\ Profile.top_actors = << >>
        /\ Profile.top_decades = << >>
        /\ Profile.top_moods = << >>
        /\ Profile.genre_distribution = << >>
        /\ Profile.total_movies = 0
        /\ Profile.average_year = RInt(0)

\* the empty list has been profiled
C19_Witness ==
    /\ Profiled
    /\ loved_films = << >>
    /\ DOMAIN Profile = {"top_genres", "top_themes", "top_directors", "top_actors",
                         "top_decades", "top_moods", "genre_distribution",
                         "total_movies", "average_year"}

\* the lists that hold the films of loved_films in another order
Reorderings ==
    {[i \in 1..Len(loved_films) |-> loved_films[order[i]]] \o << >> :
        order \in Orderings(1..Len(loved_films))}

TopListNames ==
    {"top_genres", "top_themes", "top_directors", "top_actors", "top_decades", "top_moods"}

ItemsOf(name, films) ==
    CASE name = "top_genres" -> GenreItems(films)
      [] name = "top_themes" -> ThemeItems(films)
      [] name = "top_directors" -> DirectorItems(films)
      [] name = "top_actors" -> ActorItems(films)
      [] name = "top_decades" -> DecadeItems(films)
      [] name = "top_moods" -> MoodItems(films)

\* the counts of the entries of a top list, entry by entry
CountsAlong(top, items) == [i \in 1..Len(top) |-> Occurrences(items, top[i])]

SameTotals(p, q) ==
    /\ ToSet(p.genre_distribution) = ToSet(q.genre_distribution)
    /\ p.total_movies = q.total_movies
    /\ p.average_year = q.average_year

C21_StoreFailureTolerated == ~raised


\* every film the store holds was analyzed and embedded by OpenAI: no default
\* analysis, no default embedding
AllAnalysesSucceeded ==
    \A id \in DOMAIN movies_collection :
        /\ movies_collection[id].embedding # ZeroEmbedding
        /\ "dimensional_scores" \in DOMAIN movies_collection[id].document

\* a call of generate_recommendations has returned and no collaborator failed
ReturnedAllSucceeding == Returned /\ store_failing = {} /\ AllAnalysesSucceeded

\* C24: after _ensure_movies_analyzed, with every collaborator succeeding, the
\* store holds each loved film under _create_slug(title), the identifier
\* generate_recommendations passes to find_similar_movies
C24_StoredUnderCreateSlug ==
    ReturnedAllSucceeding =>
        \A k \in 1..Len(user_loved_movies) :
            create_slug(Get(user_loved_movies[k], "title", << >>))
                \in DOMAIN movies_collection


\* the normalized titles of the loved films of the call
LovedSlugs ==
    {create_slug(Get(user_loved_movies[k], "title", << >>)) :
        k \in 1..Len(user_loved_movies)}

\* C26: no recommendation has the normalized title of a loved film, whatever
\* user_rated_movies is (omitted, empty, or listing other films)
C26_NoLovedRecommended ==
    Returned =>
        \A i \in 1..Len(Recommendations) :
            TitleSlug(Recommendations[i]) \notin LovedSlugs


RecommendationMap == result[1].recommendation_map

\* the ids of the map's nodes of one type
NodeIds(type) ==
    {RecommendationMap.nodes[i].id :
        i \in {j \in 1..Len(RecommendationMap.nodes) :
                  RecommendationMap.nodes[j].type = type}}

\* the counts of the map are those of its nodes and edges, and every edge
\* leads from a loved node to a recommendation node
MapCountsAndEdges ==
    /\ RecommendationMap.total_nodes = Len(user_loved_movies) + Len(Recommendations)
    /\ RecommendationMap.total_nodes = Len(RecommendationMap.nodes)
    /\ RecommendationMap.total_edges = Len(RecommendationMap.edges)
    /\ \A i \in 1..Len(RecommendationMap.edges) :
          /\ RecommendationMap.edges[i].target \in NodeIds("recommendation")
          /\ RecommendationMap.edges[i].source \in NodeIds("loved")

\* the counts and edges of the map are consistent in every result
MapCountsAndEdgesConsistent == Returned => MapCountsAndEdges

\* C30: in every result the recommendation_map's counts are those of its
\* nodes and edges, every edge leads from a loved node to a recommendation
\* node, and no recommendation node has the id of a loved node
C30_MapConsistent ==
    Returned =>
        /\ MapCountsAndEdges
        /\ NodeIds("recommendation") \cap NodeIds("loved") = {}


(***************************************************************************)
(* Properties of the analyzer used on its own                              *)
(***************************************************************************)
Searched == similar_found # None

SimilarFound == similar_found[1]

SimilarQuery == similar_query[1]

\* the film the store holds under the id searched for
QueriedFilm == analyzer_collection[SimilarQuery.movie_id].document

\* the search could not read the store: the id is not in it, or the lookup or
\* the query raised
SearchCannotAnswer ==
    \/ SimilarQuery.movie_id \notin DOMAIN analyzer_collection
    \/ SimilarQuery.failing # {}

\* C27: find_similar_movies(movie_id, limit) returns at most limit films,
\* never the film stored under movie_id itself, whatever the store holds
\* (films with identical or default embeddings included), and the empty list
\* when movie_id is not in the store or the store raises
C27_AtMostLimitNeverItself ==
    Searched =>
        /\ Len(SimilarFound) <= SimilarQuery.limit
        /\ SearchCannotAnswer => SimilarFound = << >>
        /\ ~SearchCannotAnswer =>
              \A i \in 1..Len(SimilarFound) :
                  SimilarFound[i].title # QueriedFilm.title

\* the parts of C27 that do not depend on which films come back
SearchBoundedAndEmptyOnFailure ==
    Searched =>
        /\ Len(SimilarFound) <= SimilarQuery.limit
        /\ SearchCannotAnswer => SimilarFound = << >>


\* the k-th and the next call of analyze_and_store_movie were made for the
\* same movie record, OpenAI succeeding in both
CalledTwice(k) ==
    /\ k + 1 <= Len(call_log)
    /\ call_log[k].movie_data = call_log[k + 1].movie_data
    /\ call_log[k].succeeding
    /\ call_log[k + 1].succeeding

\* C28: analyze_and_store_movie called twice in succession for one movie
\* record: the first call (on a store without the film) inserts one record
\* and returns True, the second finds it, returns False, and performs no AI
\* analysis and no insert
C28_SecondCallFindsFilm ==
    \A k \in 1..Len(call_log) :
        CalledTwice(k) =>
            /\ k = 1 => call_log[k].returned /\ call_log[k].inserted # None
            /\ ~call_log[k + 1].returned
            /\ ~call_log[k + 1].analyzed
            /\ call_log[k + 1].inserted = None


(***************************************************************************)
(* Properties of the analysis and the fingerprint made from analyses       *)
(***************************************************************************)
Analyzed == analysis # None

\* the chat model failed, or its reply was no JSON or carried no scores
ReplyUnusable(reply) ==
    \/ reply.kind # "json"
    \/ "dimensional_scores" \notin DOMAIN reply.object

\* the collected films that supply at least one score entry
WithScores ==
    SelectSeq(loved_movies_scores, LAMBDA movie : MovieScores(movie) # << >>)

\* C23: analyze_movie_with_ai returns the default analysis, without
\* dimensional scores, when the model call fails or its reply is no JSON or
\* lacks dimensional_scores; and the fingerprint over a list holding films
\* with an empty or missing scores map has the dimensional_scores and
\* taste_vector of the fingerprint over the list without those films
C23_FailedScoringTolerated ==
    /\ Analyzed /\ ReplyUnusable(analysis[1].reply) =>
          /\ analysis[1].analysis = get_default_analysis
          /\ "dimensional_scores" \notin DOMAIN analysis[1].analysis
    /\ returned =>
          /\ fingerprint.dimensional_scores =
                generate_taste_fingerprint(WithScores).dimensional_scores
          /\ fingerprint.taste_vector =
                generate_taste_fingerprint(WithScores).taste_vector

\* a fingerprint was generated over a scored film and the default analysis of
\* a film whose scoring failed
C23_Witness ==
    /\ returned
    /\ Analyzed
    /\ ReplyUnusable(analysis[1].reply)
    /\ \E i \in 1..Len(loved_movies_scores) :
          loved_movies_scores[i] = analysis[1].analysis
    /\ WithScores # << >>
    /\ Len(WithScores) < Len(loved_movies_scores)


(***************************************************************************)
(* Properties of the movie metadata services                               *)
(***************************************************************************)
LookedUp == lookup_result # None

LookupCall == lookup_call[1]

Found == lookup_result[1]

\* OMDb, Free IMDb: the source yields no film
OmdbFails == get_omdb_data(LookupCall.title, LookupCall.year, LookupCall.sources.omdb) = << >>

FreeImdbFails ==
    get_free_imdb_data(LookupCall.title, LookupCall.year,
                       LookupCall.sources.free_imdb) = << >>

\* every source of the service asked has failed
EverySourceFails ==
    IF LookupCall.service = "MultiAPIMovieService"
    THEN OmdbFails /\ FreeImdbFails
    ELSE /\ search_wikipedia(LookupCall.title, LookupCall.year,
                             LookupCall.sources.wikipedia) = None
         /\ search_justwatch(LookupCall.title, LookupCall.year,
                             LookupCall.sources.justwatch) = None

HasTitleAndGenres(record) ==
    /\ record # << >>
    /\ "title" \in DOMAIN record
    /\ "genres" \in DOMAIN record

\* C25 as stated: when every source fails, get_movie_data and
\* search_movie_by_title each return a fallback record with at least title
\* and genres, never an absent or empty one
C25_FallbackRecord ==
    LookedUp /\ EverySourceFails => HasTitleAndGenres(Found)

\* C25 as the code has it: neither lookup raises; search_movie_by_title
\* returns the fallback record (the title asked for, genres ['Drama']) when
\* Wikipedia and JustWatch fail, and get_movie_data asks OMDb first, Free
\* IMDb only if OMDb yields nothing, and returns the empty record {} when
\* both fail
C25_FallbackOrEmpty ==
    LookedUp =>
        IF LookupCall.service = "MultiAPIMovieService"
        THEN /\ OmdbFails /\ FreeImdbFails => Found = << >>
             /\ ~OmdbFails => Found.primary_source = "omdb"
             /\ OmdbFails /\ ~FreeImdbFails => Found.primary_source = "free_imdb"
        ELSE /\ HasTitleAndGenres(Found)
             /\ EverySourceFails =>
                   /\ Found.title = LookupCall.title
                   /\ Found.genres = <<"Drama">>
                   /\ Found.source = "fallback"

\* get_movie_data has returned the empty record for a film that OMDb does
\* not know and whose Free IMDb search raised
C25_Witness ==
    /\ LookedUp
    /\ LookupCall.service = "MultiAPIMovieService"
    /\ LookupCall.sources.omdb.kind = "json"
    /\ LookupCall.sources.free_imdb.search.kind = "raised"
    /\ Found = << >>


(***************************************************************************)
(* Properties of the /api/analyze_profile handler                          *)
(***************************************************************************)
Handled == http_request # None

HttpRequest == http_request[1]

\* the request names a user, the scraper loaded, and the profile and the
\* ratings (each rated) came back
ProfileAvailable ==
    /\ HttpRequest.body.kind = "json"
    /\ Get(HttpRequest.body.data, "username", None) # None
    /\ HttpRequest.world.scraper_available
    /\ HttpRequest.world.profile # None
    /\ \A k \in 1..Len(HttpRequest.world.ratings) :
          HttpRequest.world.ratings[k].rating # None

\* exactly one response is sent for every request
OneResponsePerRequest == Handled => Len(responses) = 1

\* the error responses: 400 without a user name, 404 without a profile
ErrorsAsStated ==
    Handled /\ HttpRequest.body.kind = "json" =>
        /\ (Get(HttpRequest.body.data, "username", None) = None
               => responses[1].status = 400)
        /\ ((/\ Get(HttpRequest.body.data, "username", None) # None
             /\ HttpRequest.world.scraper_available
             /\ HttpRequest.world.profile = None)
               => responses[1].status = 404)

\* C29: a POST with a user name, a loadable scraper, a profile and ratings
\* is answered with 200 and a body with success true, the profile, the loved
\* movies (rating >= 4, at most 20) and total_ratings; one response is sent
\* per request
C29_ProfileAnswered ==
    Handled =>
        /\ Len(responses) = 1
        /\ ProfileAvailable =>
              /\ responses[1].status = 200
              /\ responses[1].body.success
              /\ responses[1].body.data.profile = HttpRequest.world.profile
              /\ Len(responses[1].body.data.loved_movies) <= LovedShown
              /\ responses[1].body.data.total_ratings = Len(HttpRequest.world.ratings)


(***************************************************************************)
(* Frame properties of scoring and selection                               *)
(***************************************************************************)
\* the fields _score_candidates writes into a candidate
ScoreFields == {"recommendation_score", "score_breakdown"}

\* the record after has the fields of the record before, with their values,
\* and the score fields
OnlyScoreFieldsWritten(before, after) ==
    /\ DOMAIN after = DOMAIN before \cup ScoreFields
    /\ \A key \in DOMAIN before \ ScoreFields : after[key] = before[key]

\* C22 as stated: every candidate record passed to _score_candidates and
\* _select_top_recommendations has, after the call, exactly the fields and
\* values it had before, and the loved list is unchanged
C22_InputsUnchanged ==
    [][candidates' = candidates /\ loved_movies' = loved_movies]_vars

\* C22 as the code has it: _score_candidates writes recommendation_score and
\* score_breakdown into each candidate record passed in and changes nothing
\* else (the list keeps its length and order, every other field its value);
\* _select_top_recommendations changes no candidate; neither changes the
\* loved list or the taste profile
C22_OnlyScoresWritten ==
    [][/\ loved_movies' = loved_movies
       /\ taste_profile' = taste_profile
       /\ Len(candidates') = Len(candidates)
       /\ IF scored_candidates = None
          THEN \A i \in 1..Len(candidates) :
                  OnlyScoreFieldsWritten(candidates[i], candidates'[i])
          ELSE candidates' = candidates /\ scored_candidates' = scored_candidates]_vars

\* candidates have been scored, two of them with different scores in another
\* order than that of their scores, and a selection has been made
C22_Witness ==
    /\ Scored
    /\ Selected
    /\ Len(candidates) >= 2
    /\ \A i \in 1..Len(candidates) : ScoreFields \subseteq DOMAIN candidates[i]
    /\ RLt(candidates[1].recommendation_score, candidates[2].recommendation_score)
====
